---- MODULE Spec2Model ----
(***************************************************************************)
(* A model of the OSINT Investigator service: the progress tracker shared  *)
(* by the request handlers of main.py, the background search units and the *)
(* cleanup thread, and the pipeline functions of osint_service.py.         *)
(*                                                                         *)
(* Strings that the code inspects character by character (names, entity    *)
(* texts) are sequences of one-character strings.  Python threads switch   *)
(* between bytecodes, so a handler is split where it reads or writes the   *)
(* shared progress_store; a single dict.get / dict.update is one step.     *)
(***************************************************************************)
EXTENDS Integers, Sequences, FiniteSets, TLC

VARIABLES
    progress_store,   \* main.py:36  search_id -> reference of the record dict
    heap,             \* the record dicts ever created, by reference
    now,              \* time.time(), in whole seconds
    ticks,            \* number of clock advances so far (bounds the clock)
    handler,          \* POST /osint handler threads: position and locals
    units,            \* run_search threads, one per admitted request
    poller,           \* GET /progress handler thread: position and locals
    reaper,           \* cleanup_old_searches thread: position and locals
    merge,            \* one call of merge_and_dedupe: argument and result
    filt,             \* one call of filter_results: arguments and result
    gsearch,          \* one call of google_api_search: loop position, requests, result
    gemini,           \* one call of gemini_summarize_and_analyze: loop position, result
    run               \* one call of run_osint_with_progress: inputs and report

\* the variables of the progress tracker, and those of the single function calls
trackerVars == <<progress_store, heap, now, ticks, handler, units, poller, reaper>>
fnVars == <<merge, filt, gsearch, gemini, run>>

vars == <<trackerVars, fnVars>>

\* the value of a variable that a specification does not use
Unused == [pc |-> "unused"]

----------------------------------------------------------------------------
(* Bounds of the model *)

\* number of concurrent POST /osint handler threads
NumHandlers == 2
\* admitted searches per behaviour of Spec (units run phase by phase)
MaxSearches == 2
\* admitted searches per behaviour of SpecAdmit (a unit's run is one step)
MaxBurst == 6
\* clock advances per behaviour
MaxTicks == 3
\* admitted searches per behaviour of SpecLive (fair scheduling of the units)
MaxLive == 1
\* os.urandom(2) is drawn from 0 .. MaxRnd
MaxRnd == 5

(* Program constants *)

MAX_ACTIVE == 5
CLEANUP_AFTER_SECONDS == 600
SWEEP_INTERVAL == 60
NAME_MAX_LEN == 200
SAFE_NAME_LEN == 30

----------------------------------------------------------------------------
(* Sequence helpers *)

Range(s) == {s[i] : i \in 1..Len(s)}

Min(a, b) == IF a < b THEN a ELSE b

Take(s, n) == SubSeq(s, 1, Min(n, Len(s)))

IsSpace(c) == c = " "

RECURSIVE LStrip(_)
LStrip(s) == IF s # <<>> /\ IsSpace(Head(s)) THEN LStrip(Tail(s)) ELSE s

RECURSIVE RStrip(_)
RStrip(s) ==
    IF s # <<>> /\ IsSpace(s[Len(s)]) THEN RStrip(SubSeq(s, 1, Len(s) - 1)) ELSE s

\* str.strip()
Strip(s) == RStrip(LStrip(s))

\* characters kept by re.sub(r"[^\w\s\-.,']", "", ...) in sanitize_input
IsSafeChar(c) == c \in {"a", "b", "A", "B", "_", " ", "-", ".", ",", "'"}

RECURSIVE KeepSafe(_)
KeepSafe(s) ==
    IF s = <<>> THEN <<>>
    ELSE IF IsSafeChar(Head(s)) THEN <<Head(s)>> \o KeepSafe(Tail(s))
    ELSE KeepSafe(Tail(s))

\* osint_service.sanitize_input
sanitize_input(text) ==
    IF text = <<>> THEN <<>> ELSE Take(KeepSafe(Strip(text)), NAME_MAX_LEN)

\* name.replace(" ", "_")[:30]
safe_name(name) ==
    Take([i \in 1..Len(name) |-> IF name[i] = " " THEN "_" ELSE name[i]], SAFE_NAME_LEN)

----------------------------------------------------------------------------
(* The progress tracker: records *)

\* the (pct, stage) arguments of the update() calls of run_osint_with_progress, in order
PHASES == <<
    [pct |-> 5,  stage |-> "Searching LinkedIn profiles..."],
    [pct |-> 15, stage |-> "Searching news & legal sources..."],
    [pct |-> 25, stage |-> "Running general web search..."],
    [pct |-> 35, stage |-> "Searching Reddit..."],
    [pct |-> 42, stage |-> "Searching Wikipedia..."],
    [pct |-> 50, stage |-> "Searching business records..."],
    [pct |-> 58, stage |-> "Searching academic sources..."],
    [pct |-> 63, stage |-> "Searching social media..."],
    [pct |-> 68, stage |-> "Merging and deduplicating results..."],
    [pct |-> 72, stage |-> "Running NLP entity recognition..."],
    [pct |-> 76, stage |-> "Filtering for relevance..."],
    [pct |-> 80, stage |-> "Extracting profile metadata..."],
    [pct |-> 82, stage |-> "Analyzing entity relationships..."],
    [pct |-> 85, stage |-> "Running AI intelligence analysis..."],
    [pct |-> 93, stage |-> "Building evidence timeline..."],
    [pct |-> 97, stage |-> "Packaging results..."] >>

NumPhases == Len(PHASES)
\* index in PHASES of the merge phase and of the filter phase (the early exits)
MergePhase == CHOOSE i \in 1..NumPhases : PHASES[i].pct = 68
FilterPhase == CHOOSE i \in 1..NumPhases : PHASES[i].pct = 76

\* An optional key of a record dict is <<>> when absent and <<value>> when present.
NewRecord(t) ==
    [percentage |-> 0, stage |-> "Initializing...", status |-> "running",
     started |-> t, result |-> <<>>, error |-> <<>>, finished |-> <<>>]

\* progress_store[search_id].update({... "status": "completed" ...}), main.py:146-152
CompletedRecord(rec, result, t) ==
    [rec EXCEPT !.percentage = 100, !.stage = "Search complete!",
                !.status = "completed", !.result = <<result>>, !.finished = <<t>>]

\* progress_store[search_id].update({... "status": "error" ...}), main.py:157-163
ErrorRecord(rec, msg, t) ==
    [rec EXCEPT !.status = "error", !.error = <<msg>>, !.stage = "Search failed",
                !.percentage = rec.percentage, !.finished = <<t>>]

\* entry.update({"percentage": pct, "stage": stage}), osint_service.py:551
UpdatedRecord(rec, pct, stage) ==
    [rec EXCEPT !.percentage = pct, !.stage = stage]

Ids == DOMAIN progress_store

Rec(sid) == heap[progress_store[sid]]

\* sum(1 for v in progress_store.values() if v.get("status") == "running")
ActiveCount == Cardinality({sid \in Ids : Rec(sid).status = "running"})

----------------------------------------------------------------------------
(* POST /osint, main.py:97-172 *)

\* request bodies: None, or a JSON object with the given "name"
NoBody == <<"?">>
RequestNames == { <<>>, <<" ">>, <<"a">>, <<"@">> }
BurstNames == { <<"a">> }
LiveNames == { <<"a">>, <<"b">>, <<"A">>, <<"a", " ", "b">>, <<"@">>, <<"@", "a">> }

\* the search_id of main.py:133
SearchId(name, t, rnd) == <<safe_name(name), t, rnd>>

\* lines 110-129 with a request that is rejected: 400 for a missing body or name,
\* 429 at the concurrency cap.  No record is created, no thread is started.
OsintReject(h) ==
    /\ handler[h].pc = "idle"
    /\ \E body \in RequestNames \cup {NoBody} :
         LET name == IF body = NoBody THEN <<>> ELSE Strip(body) IN
         /\ \/ body = NoBody
            \/ name = <<>>
            \/ Len(name) > NAME_MAX_LEN
            \/ ActiveCount >= MAX_ACTIVE
    /\ UNCHANGED vars

\* requests admitted so far, and those past the checks of lines 110-129
Admitted == Len(units) + Cardinality({g \in DOMAIN handler : handler[g].pc = "checked"})

\* lines 110-129 with a request that passes validation and the cap check
OsintCheck(h, limit, names) ==
    /\ handler[h].pc = "idle"
    /\ Admitted < limit
    /\ \E body \in names :
         LET name == Strip(body) IN
         /\ name # <<>>
         /\ Len(name) <= NAME_MAX_LEN
         /\ ActiveCount < MAX_ACTIVE
         /\ handler' = [handler EXCEPT ![h] = [pc |-> "checked", name |-> name]]
    /\ UNCHANGED <<progress_store, heap, now, ticks, units, poller, reaper, fnVars>>

\* os.urandom(2).hex(): identifiers are only compared for equality, so the k-th
\* admission draws among the values already drawn and one more
RndChoices == 0..Min(MaxRnd, Len(units))

\* lines 131-167: the record is stored under the new search_id and the thread is started
OsintStart(h) ==
    /\ handler[h].pc = "checked"
    /\ \E rnd \in RndChoices :
         LET sid == SearchId(handler[h].name, now, rnd)
             ref == Len(heap) + 1
         IN
         /\ heap' = Append(heap, NewRecord(now))
         /\ progress_store' =
                [s \in Ids \cup {sid} |-> IF s = sid THEN ref ELSE progress_store[s]]
         /\ units' = Append(units, [sid |-> sid, name |-> handler[h].name, pc |-> 0])
    /\ handler' = [handler EXCEPT ![h] = [pc |-> "idle", name |-> <<>>]]
    /\ UNCHANGED <<now, ticks, poller, reaper, fnVars>>

----------------------------------------------------------------------------
(* run_search, main.py:142-164, running run_osint_with_progress *)

\* position of a unit whose thread has ended
DonePc == 0 - 1

NAME_REQUIRED == "Name is required for OSINT search."
UNEXPECTED == "unexpected exception"

\* where run_osint_with_progress can raise: the name check before the first update,
\* and the phases that walk the provider's payload with unguarded calls (merge,
\* entity recognition, filter, profile extraction)
FailPoints == {0} \cup {i \in 1..NumPhases : PHASES[i].pct \in {68, 72, 76, 80}}

\* what run_osint_with_progress returns at each of its three return statements
ReportKindAt(pc) ==
    IF pc = MergePhase THEN "zero_merged"
    ELSE IF pc = FilterPhase THEN "zero_filtered"
    ELSE "full"

\* a variant whose phase never ends: the position is not advanced
UnitUpdateStuck(u) ==
    /\ units[u].pc \in 0..(NumPhases - 1)
    /\ sanitize_input(units[u].name) # <<>>
    /\ LET ph == PHASES[units[u].pc + 1]
           sid == units[u].sid
       IN heap' = IF sid \in Ids
                  THEN [heap EXCEPT ![progress_store[sid]] = UpdatedRecord(@, ph.pct, ph.stage)]
                  ELSE heap
    /\ UNCHANGED <<units, progress_store, now, ticks, handler, poller, reaper, fnVars>>

\* update(pct, stage), osint_service.py:548-552, followed by the work of that phase.
\* The write goes to whatever dict progress_store holds under search_id at that time.
UnitUpdate(u) ==
    /\ units[u].pc \in 0..(NumPhases - 1)
    /\ sanitize_input(units[u].name) # <<>>
    /\ LET ph == PHASES[units[u].pc + 1]
           sid == units[u].sid
       IN heap' = IF sid \in Ids
                  THEN [heap EXCEPT ![progress_store[sid]] = UpdatedRecord(@, ph.pct, ph.stage)]
                  ELSE heap
    /\ units' = [units EXCEPT ![u].pc = @ + 1]
    /\ UNCHANGED <<progress_store, now, ticks, handler, poller, reaper, fnVars>>

\* run_osint_with_progress returned (empty merge, empty filter, or the full report):
\* main.py:146-152.  A missing record raises KeyError here and again in the handler
\* of main.py:155-163, which ends the thread.
UnitComplete(u) ==
    /\ units[u].pc \in {MergePhase, FilterPhase, NumPhases}
    /\ LET sid == units[u].sid IN
       heap' = IF sid \in Ids
               THEN [heap EXCEPT ![progress_store[sid]] =
                        CompletedRecord(@, [kind |-> ReportKindAt(units[u].pc)], now)]
               ELSE heap
    /\ units' = [units EXCEPT ![u].pc = DonePc]
    /\ UNCHANGED <<progress_store, now, ticks, handler, poller, reaper, fnVars>>

\* run_osint_with_progress raised: the ValueError of osint_service.py:542-543 before
\* the first update, or an exception in the work of a phase; main.py:155-163.
UnitFail(u) ==
    /\ units[u].pc \in FailPoints
    /\ (units[u].pc = 0) = (sanitize_input(units[u].name) = <<>>)
    /\ LET sid == units[u].sid
           msg == IF units[u].pc = 0 THEN NAME_REQUIRED ELSE UNEXPECTED
       IN heap' = IF sid \in Ids
                  THEN [heap EXCEPT ![progress_store[sid]] = ErrorRecord(@, msg, now)]
                  ELSE heap
    /\ units' = [units EXCEPT ![u].pc = DonePc]
    /\ UNCHANGED <<progress_store, now, ticks, handler, poller, reaper, fnVars>>

\* run_search from its first line to its last as one step, for a provider whose
\* results are well-formed and pass the filter: the record ends in error for a name
\* that sanitize_input empties, and otherwise completed with the full report
RunSearch(u) ==
    /\ units[u].pc = 0
    /\ units[u].sid \in Ids
    /\ LET ref == progress_store[units[u].sid] IN
       heap' = [heap EXCEPT ![ref] =
                  IF sanitize_input(units[u].name) = <<>>
                  THEN ErrorRecord(@, NAME_REQUIRED, now)
                  ELSE CompletedRecord(@, [kind |-> ReportKindAt(NumPhases)], now)]
    /\ units' = [units EXCEPT ![u].pc = DonePc]
    /\ UNCHANGED <<progress_store, now, ticks, handler, poller, reaper, fnVars>>

----------------------------------------------------------------------------
(* GET /progress/<search_id>, main.py:175-194 *)

\* identifiers a client can ask for: every one ever returned, and one never issued
UnknownId == <<<<"?">>, 0, 0>>
IssuedIds == {units[u].sid : u \in DOMAIN units}

NoResponse == [code |-> 0, percentage |-> 0, stage |-> "", status |-> "",
               result |-> <<>>, error |-> <<>>]

\* history: the percentage the poller's previous poll returned, when that poll was
\* for the same search_id and found the record; NoPrev otherwise
NoPrev == 0 - 1
PrevPercentage(sid) ==
    IF poller.pc = "done" /\ poller.sid = sid /\ poller.resp.code = 200
    THEN poller.resp.percentage ELSE NoPrev

\* line 178-180: progress = progress_store.get(search_id); 404 when absent
PollLookup ==
    /\ poller.pc \in {"idle", "done"}
    /\ \E sid \in IssuedIds \cup {UnknownId} :
         IF sid \in Ids
         THEN poller' = [pc |-> "got", sid |-> sid, ref |-> progress_store[sid],
                         resp |-> NoResponse, prev |-> PrevPercentage(sid)]
         ELSE poller' = [pc |-> "done", sid |-> sid, ref |-> 0,
                         resp |-> [NoResponse EXCEPT !.code = 404], prev |-> NoPrev]
    /\ UNCHANGED <<progress_store, heap, now, ticks, handler, units, reaper, fnVars>>

\* lines 183-187: the response dict is built from the record's percentage, stage
\* and status (the three reads of the dict literal are taken together; the checks
\* of lines 189 and 191 read the record again)
PollBuildResponse ==
    /\ poller.pc = "got"
    /\ LET rec == heap[poller.ref] IN
       poller' = [poller EXCEPT !.pc = "built", !.prev = NoPrev,
                                !.resp.percentage = rec.percentage,
                                !.resp.stage = rec.stage,
                                !.resp.status = rec.status]
    /\ UNCHANGED <<progress_store, heap, now, ticks, handler, units, reaper, fnVars>>

\* the response of lines 183-194 once it is complete
Respond(resp) ==
    poller' = [poller EXCEPT !.pc = "done", !.resp = [resp EXCEPT !.code = 200]]

\* lines 189-190: status == "completed" and "result" in progress
PollCheckCompleted ==
    /\ poller.pc = "built"
    /\ LET rec == heap[poller.ref] IN
       IF rec.status = "completed" /\ rec.result # <<>>
       THEN Respond([poller.resp EXCEPT !.result = rec.result])
       ELSE poller' = [poller EXCEPT !.pc = "elif"]
    /\ UNCHANGED <<progress_store, heap, now, ticks, handler, units, reaper, fnVars>>

\* lines 191-194: elif status == "error"
PollCheckError ==
    /\ poller.pc = "elif"
    /\ LET rec == heap[poller.ref] IN
       IF rec.status = "error"
       THEN Respond([poller.resp EXCEPT
                        !.error = IF rec.error = <<>> THEN <<"Unknown error">> ELSE rec.error])
       ELSE Respond(poller.resp)
    /\ UNCHANGED <<progress_store, heap, now, ticks, handler, units, reaper, fnVars>>

----------------------------------------------------------------------------
(* cleanup_old_searches, main.py:43-55, and the clock *)

\* the clock moves on; the steps reach the retention window and its boundary
TickSteps == {1, CLEANUP_AFTER_SECONDS}

Tick ==
    /\ ticks < MaxTicks
    /\ \E d \in TickSteps : now' = now + d
    /\ ticks' = ticks + 1
    /\ UNCHANGED <<progress_store, heap, handler, units, poller, reaper, fnVars>>

\* lines 46-48: time.sleep(60) is over, now = time.time(), the iteration over
\* progress_store.items() begins (a dict iterator remembers the dict's size)
ReaperWake ==
    /\ reaper.pc = "sleep"
    /\ now >= reaper.wake
    /\ reaper' = [reaper EXCEPT !.pc = "scan", !.now = now, !.used = Cardinality(Ids)]
    /\ UNCHANGED <<progress_store, heap, now, ticks, handler, units, poller, fnVars>>

\* the stale_ids of lines 48-52
StaleIds(t) ==
    {sid \in Ids :
        /\ Rec(sid).status \in {"completed", "error"}
        /\ Rec(sid).finished # <<>>
        /\ t - Rec(sid).finished[1] > CLEANUP_AFTER_SECONDS}

\* lines 48-52: the iteration ends and stale_ids is built; a dict whose size changed
\* under the iterator raises RuntimeError, which ends the thread
ReaperScan ==
    /\ reaper.pc = "scan"
    /\ reaper' = IF Cardinality(Ids) # reaper.used
                 THEN [reaper EXCEPT !.pc = "dead"]
                 ELSE [reaper EXCEPT !.pc = "pop", !.stale = StaleIds(reaper.now)]
    /\ UNCHANGED <<progress_store, heap, now, ticks, handler, units, poller, fnVars>>

\* lines 53-55: progress_store.pop(sid, None) for each sid of stale_ids, whatever
\* the map holds under sid by then; then the next time.sleep(60) begins
ReaperSweep ==
    /\ reaper.pc = "pop"
    /\ progress_store' = [s \in Ids \ reaper.stale |-> progress_store[s]]
    /\ reaper' = [reaper EXCEPT !.pc = "sleep", !.wake = now + SWEEP_INTERVAL, !.stale = {}]
    /\ UNCHANGED <<heap, now, ticks, handler, units, poller, fnVars>>

----------------------------------------------------------------------------
(* The service *)

TrackerInit(handlers) ==
    /\ progress_store = <<>>
    /\ heap = <<>>
    /\ now = 0
    /\ ticks = 0
    /\ handler = [h \in 1..handlers |-> [pc |-> "idle", name |-> <<>>]]
    /\ units = <<>>
    /\ poller = [pc |-> "idle", sid |-> UnknownId, ref |-> 0, resp |-> NoResponse, prev |-> NoPrev]
    /\ reaper = [pc |-> "sleep", wake |-> SWEEP_INTERVAL, now |-> 0, used |-> 0, stale |-> {}]

FnUnused ==
    /\ merge = Unused
    /\ filt = Unused
    /\ gsearch = Unused
    /\ gemini = Unused
    /\ run = Unused

\* Spec: one request handler at a time, the units phase by phase, and a poller;
\* everything happens within one second of the clock.
Init == TrackerInit(1) /\ FnUnused

Next ==
    \/ \E h \in DOMAIN handler : OsintReject(h)
    \/ \E h \in DOMAIN handler : OsintCheck(h, MaxSearches, RequestNames)
    \/ \E h \in DOMAIN handler : OsintStart(h)
    \/ \E u \in DOMAIN units : UnitUpdate(u)
    \/ \E u \in DOMAIN units : UnitComplete(u)
    \/ \E u \in DOMAIN units : UnitFail(u)
    \/ PollLookup
    \/ PollBuildResponse
    \/ PollCheckCompleted
    \/ PollCheckError
Spec == Init /\ [][Next]_vars

\* SpecAdmit: concurrent request handlers and a burst of requests for one name,
\* each unit's run as one step.
InitAdmit == TrackerInit(NumHandlers) /\ FnUnused

NextAdmit ==
    \/ \E h \in DOMAIN handler : OsintReject(h)
    \/ \E h \in DOMAIN handler : OsintCheck(h, MaxBurst, BurstNames)
    \/ \E h \in DOMAIN handler : OsintStart(h)
    \/ \E u \in DOMAIN units : RunSearch(u)

SpecAdmit == InitAdmit /\ [][NextAdmit]_vars

\* SpecReap: the sweep thread beside admissions and units, with a clock; each
\* unit's run is one step.
InitReap == TrackerInit(1) /\ FnUnused

NextReap ==
    \/ \E h \in DOMAIN handler : OsintCheck(h, MaxSearches, BurstNames)
    \/ \E h \in DOMAIN handler : OsintStart(h)
    \/ \E u \in DOMAIN units : RunSearch(u)
    \/ Tick
    \/ ReaperWake
    \/ ReaperScan
    \/ ReaperSweep

SpecReap == InitReap /\ [][NextReap]_vars

\* SpecLive: admissions and units phase by phase, with the scheduling the threads
\* get: a thread that can take a step is not left waiting forever, and every
\* outbound call of a phase returns or fails.
UnitStep(u) ==
    /\ u \in DOMAIN units
    /\ UnitUpdate(u) \/ UnitComplete(u) \/ UnitFail(u)

InitLive == TrackerInit(1) /\ FnUnused

NextLive ==
    \/ \E h \in DOMAIN handler : OsintCheck(h, MaxLive, LiveNames)
    \/ \E h \in DOMAIN handler : OsintStart(h)
    \/ \E u \in DOMAIN units : UnitStep(u)

SpecLive ==
    /\ InitLive
    /\ [][NextLive]_vars
    /\ \A u \in 1..MaxLive : WF_vars(UnitStep(u))


----------------------------------------------------------------------------
(* osint_service.merge_and_dedupe *)

\* Bounds of one call: the results over all the lists, and the lists.
MaxMerge == 3
MergeLists == 3

\* "" is the empty link, and the value r.get("link", "") gives a missing one.
MergeLinks == {"", "u1", "u2"}
MergeTags == {"LinkedIn", "General"}
MergeResults == [link : MergeLinks, source : MergeTags]

SeqsUpTo(S, n) == UNION {[1..k -> S] : k \in 0..n}

\* The ways of cutting n results into MergeLists consecutive lists.
Cuts(n) ==
    {c \in [1..(MergeLists - 1) -> 0..n] :
        \A i, j \in 1..(MergeLists - 1) : i < j => c[i] <= c[j]}

CutAt(c, k, n) == IF k = 0 THEN 0 ELSE IF k = MergeLists THEN n ELSE c[k]

SplitLists(flat, c) ==
    [k \in 1..MergeLists |->
        SubSeq(flat, CutAt(c, k - 1, Len(flat)) + 1, CutAt(c, k, Len(flat)))]

\* a variant that keeps a result whatever its link, as long as it is new
MergeKeepsUnseen(link, seen) == link \notin seen

\* a variant that keeps every result that has a link
MergeKeepsLinked(link, seen) == link # ""

\* `if link and link not in seen`
MergeKeeps(link, seen) == link # "" /\ link \notin seen

\* `for r in sub`, on the pair (seen, out)
RECURSIVE MergeSub(_, _)
MergeSub(sub, st) ==
    IF sub = <<>> THEN st
    ELSE LET r == Head(sub)
             link == r.link
         IN  MergeSub(Tail(sub),
                 IF MergeKeeps(link, st.seen)
                 THEN [seen |-> st.seen \cup {link}, out |-> Append(st.out, r)]
                 ELSE st)

\* `for sub in list_of_lists`
RECURSIVE MergeAll(_, _)
MergeAll(list_of_lists, st) ==
    IF list_of_lists = <<>> THEN st
    ELSE MergeAll(Tail(list_of_lists), MergeSub(Head(list_of_lists), st))

merge_and_dedupe(list_of_lists) == MergeAll(list_of_lists, [seen |-> {}, out |-> <<>>]).out

MergeCall ==
    /\ merge.pc = "call"
    /\ merge' = [merge EXCEPT !.pc = "done", !.out = merge_and_dedupe(merge.list_of_lists)]
    /\ UNCHANGED <<trackerVars, filt, gsearch, gemini, run>>

InitMerge ==
    /\ TrackerInit(0)
    /\ \E flat \in SeqsUpTo(MergeResults, MaxMerge) : \E c \in Cuts(Len(flat)) :
          merge = [pc |-> "call", list_of_lists |-> SplitLists(flat, c), out |-> <<>>]
    /\ filt = Unused /\ gsearch = Unused /\ gemini = Unused /\ run = Unused

NextMerge == MergeCall

SpecMerge == InitMerge /\ [][NextMerge]_vars

RECURSIVE Concat(_)
Concat(ll) == IF ll = <<>> THEN <<>> ELSE Head(ll) \o Concat(Tail(ll))

FirstIndex(flat, link) == CHOOSE i \in 1..Len(flat) : flat[i].link = link /\ \A j \in 1..(i - 1) : flat[j].link # link

\* C6: merge_and_dedupe returns every distinct non-empty link of its input exactly
\* once and no result with an empty or missing link; the result kept for a link is
\* the first one with that link in the concatenation of the lists in list order
\* (whatever its source tag), and the survivors are in first-seen order.
C6_MergeKeepsFirstOfEachLink ==
    merge.pc = "done" =>
        LET flat == Concat(merge.list_of_lists)
            out == merge.out
            links == {flat[i].link : i \in 1..Len(flat)} \ {""}
        IN  /\ \A l \in links : Cardinality({i \in 1..Len(out) : out[i].link = l}) = 1
            /\ \A i \in 1..Len(out) : out[i].link # "" /\ out[i].link \in links
            /\ \A i \in 1..Len(out) : out[i] = flat[FirstIndex(flat, out[i].link)]
            /\ \A i, j \in 1..Len(out) :
                  i < j => FirstIndex(flat, out[i].link) < FirstIndex(flat, out[j].link)

\* a call with two lists that hold the same link under different source tags, and
\* a result with an empty link
C6_Witness ==
    /\ merge.pc = "done"
    /\ \E a, b \in 1..MergeLists :
          /\ a < b
          /\ \E i \in 1..Len(merge.list_of_lists[a]), j \in 1..Len(merge.list_of_lists[b]) :
                /\ merge.list_of_lists[a][i].link = merge.list_of_lists[b][j].link
                /\ merge.list_of_lists[a][i].link # ""
                /\ merge.list_of_lists[a][i].source # merge.list_of_lists[b][j].source
                /\ merge.out = <<merge.list_of_lists[a][i]>>
    /\ \E k \in 1..MergeLists : \E i \in 1..Len(merge.list_of_lists[k]) :
          merge.list_of_lists[k][i].link = ""

----------------------------------------------------------------------------
(* osint_service.is_name_match, enrich_with_nlp, filter_results *)

\* The results of one call.
MaxCombined == 2

\* str.lower()
Lower(s) ==
    [i \in 1..Len(s) |-> IF s[i] = "A" THEN "a" ELSE IF s[i] = "B" THEN "b" ELSE s[i]]

\* `a in b` for strings
IsSubstr(a, b) ==
    \E i \in 0..(Len(b) - Len(a)) : SubSeq(b, i + 1, i + Len(a)) = a

\* str.split(): the maximal runs of characters that are not whitespace
RECURSIVE SplitFrom(_, _)
SplitFrom(s, word) ==
    IF s = <<>> THEN (IF word = <<>> THEN <<>> ELSE <<word>>)
    ELSE IF IsSpace(Head(s))
         THEN (IF word = <<>> THEN <<>> ELSE <<word>>) \o SplitFrom(Tail(s), <<>>)
         ELSE SplitFrom(Tail(s), Append(word, Head(s)))

Split(s) == SplitFrom(s, <<>>)

\* `[p.lower() for p in target_name.split() if p.strip()]`
TargetParts(target_name) == [i \in DOMAIN Split(target_name) |-> Lower(Split(target_name)[i])]

\* one entity of the loop of is_name_match
EntityMatches(target_parts, ent) ==
    /\ ent.label = "PERSON"
    /\ LET person == Lower(ent.text)
       IN  IF Len(target_parts) >= 2
           THEN \A k \in DOMAIN target_parts : IsSubstr(target_parts[k], person)
           ELSE IsSubstr(target_parts[1], person) \/ IsSubstr(person, target_parts[1])

is_name_match(target_name, entities) ==
    LET target_parts == TargetParts(target_name)
    IN  /\ target_parts # <<>>
        /\ \E i \in DOMAIN entities : EntityMatches(target_parts, entities[i])

\* Thresholds of the fuzzy tiers.
FULL_THRESHOLD == 88
TOKEN_THRESHOLD == 83

\* A result as filter_results reads it. The text of title and snippet is
\* represented by what the library calls on it return:
\*   phrase  full_name_regex.search(title) or full_name_regex.search(snippet)
\*   full    fuzz.partial_ratio(name_lower, raw_low)
\*   tok[k]  fuzz.partial_ratio(tok.lower(), raw_low) for the k-th name token
\* ner is what the NER model finds in the text.
FilterNames == {<<" ">>, <<"a">>, <<"A", " ", "b">>}
Low == FULL_THRESHOLD - 1
Hit == FULL_THRESHOLD
low == TOKEN_THRESHOLD - 1
hit == TOKEN_THRESHOLD
Person(text) == [text |-> text, label |-> "PERSON"]
Org(text) == [text |-> text, label |-> "ORG"]
EntityLists ==
    { <<>>,
      <<Org(<<"a", " ", "b">>)>>,
      <<Person(<<"b">>)>>,
      <<Org(<<"b">>), Person(<<"B", " ", "a">>)>> }
TextScores ==
    { [phrase |-> TRUE,  full |-> Hit, tok |-> <<hit, hit>>],
      [phrase |-> TRUE,  full |-> Low, tok |-> <<low, low>>],
      [phrase |-> FALSE, full |-> Hit, tok |-> <<hit, hit>>],
      [phrase |-> FALSE, full |-> Hit, tok |-> <<low, low>>],
      [phrase |-> FALSE, full |-> Low, tok |-> <<hit, hit>>],
      [phrase |-> FALSE, full |-> Low, tok |-> <<hit, low>>],
      [phrase |-> FALSE, full |-> Low, tok |-> <<low, hit>>],
      [phrase |-> FALSE, full |-> Low, tok |-> <<low, low>>] }
TextResults ==
    {[ner |-> e, phrase |-> t.phrase, full |-> t.full, tok |-> t.tok] :
        e \in EntityLists, t \in TextScores}

\* dict with one more key
WithKey(r, key, val) == [k \in DOMAIN r \cup {key} |-> IF k = key THEN val ELSE r[k]]

\* a variant that keeps what the NER model would find when the model is absent
EnrichAlways(results, nlp) ==
    [i \in DOMAIN results |-> WithKey(results[i], "entities", results[i].ner)]

\* enrich_with_nlp: r["entities"] = [] without the NER model, else what it finds
enrich_with_nlp(results, nlp) ==
    [i \in DOMAIN results |->
        WithKey(results[i], "entities", IF nlp THEN results[i].ner ELSE <<>>)]

\* `result.get("entities", [])`
EntitiesOf(result) == IF "entities" \in DOMAIN result THEN result.entities ELSE <<>>

Tier1(result, name) == is_name_match(name, EntitiesOf(result))
Tier2(result, name) == Split(name) # <<>> /\ result.phrase
\* a variant whose full-name tier needs more than the threshold
Tier3AboveThreshold(result, name) == result.full > FULL_THRESHOLD

Tier3(result, name) == result.full >= FULL_THRESHOLD
Tier4(result, name) ==
    LET token_hits == [k \in DOMAIN Split(name) |-> result.tok[k] >= TOKEN_THRESHOLD]
    IN  token_hits # <<>> /\ \A k \in DOMAIN token_hits : token_hits[k]

NoTier == "none"

\* a variant that tries the exact phrase before the entity match
FilterTierPhraseFirst(result, name) ==
    IF Tier2(result, name) THEN "Exact Phrase"
    ELSE IF Tier1(result, name) THEN "NLP Entity"
    ELSE IF Tier3(result, name) THEN "Fuzzy Match"
    ELSE IF Tier4(result, name) THEN "Token Match"
    ELSE NoTier

\* the body of the loop of filter_results: the matchMethod it writes, if any
FilterTier(result, name) ==
    IF Tier1(result, name) THEN "NLP Entity"
    ELSE IF Tier2(result, name) THEN "Exact Phrase"
    ELSE IF Tier3(result, name) THEN "Fuzzy Match"
    ELSE IF Tier4(result, name) THEN "Token Match"
    ELSE NoTier

\* the list `combined` after the call: the kept results carry matchMethod
FilterMarked(combined, name) ==
    [i \in DOMAIN combined |->
        IF FilterTier(combined[i], name) = NoTier THEN combined[i]
        ELSE WithKey(combined[i], "matchMethod", FilterTier(combined[i], name))]

RECURSIVE FilterLoop(_, _, _)
FilterLoop(combined, name, filtered) ==
    IF combined = <<>> THEN filtered
    ELSE LET result == Head(combined)
             tier == FilterTier(result, name)
         IN  FilterLoop(Tail(combined), name,
                 IF tier = NoTier THEN filtered
                 ELSE Append(filtered, WithKey(result, "matchMethod", tier)))

filter_results(combined, name) == FilterLoop(combined, name, <<>>)

FilterCall ==
    /\ filt.pc = "call"
    /\ filt' = [filt EXCEPT !.pc = "done",
                            !.filtered = filter_results(filt.combined, filt.name),
                            !.marked = FilterMarked(filt.combined, filt.name)]
    /\ UNCHANGED <<trackerVars, merge, gsearch, gemini, run>>

InitFilter ==
    /\ TrackerInit(0)
    /\ \E nlp \in BOOLEAN, name \in FilterNames, results \in SeqsUpTo(TextResults, MaxCombined) :
          filt = [pc |-> "call", nlp |-> nlp, name |-> name,
                  combined |-> enrich_with_nlp(results, nlp),
                  filtered |-> <<>>, marked |-> <<>>]
    /\ merge = Unused /\ gsearch = Unused /\ gemini = Unused /\ run = Unused

NextFilter == FilterCall

SpecFilter == InitFilter /\ [][NextFilter]_vars

\* the name of the matchMethod of each tier
TierLabel ==
    [entity |-> "NLP Entity", exact_phrase |-> "Exact Phrase",
     fuzzy_full |-> "Fuzzy Match", fuzzy_token |-> "Token Match"]

RECURSIVE IsSubsequence(_, _)
IsSubsequence(a, b) ==
    IF a = <<>> THEN TRUE
    ELSE IF b = <<>> THEN FALSE
    ELSE IF Head(a) = Head(b) THEN IsSubsequence(Tail(a), Tail(b))
    ELSE IsSubsequence(a, Tail(b))

\* C7: filter_results tags each kept result with the matchMethod of the first
\* tier that succeeds in the order entity, exact phrase, fuzzy full-name, fuzzy
\* per-token (the entity tier wins even when later tiers would succeed too); a
\* result matching no tier is dropped and gets no matchMethod; the output is the
\* kept results in input order.
C7_FirstTierTags ==
    filt.pc = "done" =>
        LET name == filt.name
            kept == {i \in DOMAIN filt.combined : "matchMethod" \in DOMAIN filt.marked[i]}
        IN  /\ Len(filt.marked) = Len(filt.combined)
            /\ \A i \in DOMAIN filt.combined :
                  LET r == filt.combined[i]
                      m == filt.marked[i]
                      t1 == Tier1(r, name)
                      t2 == Tier2(r, name)
                      t3 == Tier3(r, name)
                      t4 == Tier4(r, name)
                  IN  /\ t1 => i \in kept /\ m.matchMethod = TierLabel.entity
                      /\ ~t1 /\ t2 => i \in kept /\ m.matchMethod = TierLabel.exact_phrase
                      /\ ~t1 /\ ~t2 /\ t3 => i \in kept /\ m.matchMethod = TierLabel.fuzzy_full
                      /\ ~t1 /\ ~t2 /\ ~t3 /\ t4 =>
                            i \in kept /\ m.matchMethod = TierLabel.fuzzy_token
                      /\ ~t1 /\ ~t2 /\ ~t3 /\ ~t4 => i \notin kept /\ m = r
                      /\ i \in kept => m = WithKey(r, "matchMethod", m.matchMethod)
            /\ Len(filt.filtered) = Cardinality(kept)
            /\ \A j \in DOMAIN filt.filtered : "matchMethod" \in DOMAIN filt.filtered[j]
            /\ IsSubsequence(filt.filtered, filt.marked)

\* a call on a result that satisfies all four tiers, followed by one that
\* satisfies none
C7_Witness ==
    /\ filt.pc = "done"
    /\ Len(filt.combined) = 2
    /\ LET r == filt.combined[1]
       IN  /\ Tier1(r, filt.name) /\ Tier2(r, filt.name)
           /\ Tier3(r, filt.name) /\ Tier4(r, filt.name)
    /\ FilterTier(filt.combined[2], filt.name) = NoTier
    /\ Len(filt.filtered) = 1
    /\ filt.filtered[1].matchMethod = "NLP Entity"

\* C12: of the results that tiers 1 and 2 do not match, for a name with at least
\* one token: a full-name similarity of 88 or more is kept by tier 3; with 87
\* tier 3 does not keep it and tier 4 keeps it exactly when every name token
\* scores at least 83 (one token at 82 drops the result).
C12_FuzzyThresholdsAreExact ==
    (filt.pc = "done" /\ Split(filt.name) # <<>>) =>
        \A i \in DOMAIN filt.combined :
            LET r == filt.combined[i]
                m == filt.marked[i]
                kept == "matchMethod" \in DOMAIN m
                tokens == DOMAIN Split(filt.name)
            IN  (~Tier1(r, filt.name) /\ ~Tier2(r, filt.name)) =>
                   /\ r.full >= 88 => kept /\ m.matchMethod = TierLabel.fuzzy_full
                   /\ r.full <= 87 =>
                         /\ kept <=> \A k \in tokens : r.tok[k] >= 83
                         /\ kept => m.matchMethod = TierLabel.fuzzy_token
                         /\ (\E k \in tokens : r.tok[k] <= 82) => ~kept

\* a call for a name of two tokens on a result at 88 with both tokens at 82, kept
\* by tier 3, and on a result at 87 with one token at 83 and one at 82, dropped
C12_Witness ==
    /\ filt.pc = "done"
    /\ Len(Split(filt.name)) = 2
    /\ Len(filt.combined) = 2
    /\ \A i \in 1..2 : ~Tier1(filt.combined[i], filt.name) /\ ~Tier2(filt.combined[i], filt.name)
    /\ filt.combined[1].full = 88 /\ filt.combined[1].tok = <<82, 82>>
    /\ filt.combined[2].full = 87 /\ filt.combined[2].tok = <<83, 82>>
    /\ Len(filt.filtered) = 1
    /\ filt.filtered[1].matchMethod = "Fuzzy Match"

----------------------------------------------------------------------------
(* The filter without the NER model: a merge of which a few results hold the phrase *)

ScenarioResults == 12
ScenarioPhrase == 3

\* the scores of a result that holds the phrase, and of one that matches no tier
PhraseScores == {t \in TextScores : t.phrase}
NoMatchScores == [phrase |-> FALSE, full |-> Low, tok |-> <<low, low>>]

\* enrich_with_nlp(combined), osint_service.py:641
EnrichCall ==
    /\ filt.pc = "enrich"
    /\ filt' = [filt EXCEPT !.pc = "call", !.combined = enrich_with_nlp(@, filt.nlp)]
    /\ UNCHANGED <<trackerVars, merge, gsearch, gemini, run>>

\* the merge holds ScenarioResults results; ScenarioPhrase of them, at any positions,
\* hold the phrase of the name.  ner is what the NER model would find in a result
\* if it were loaded.
InitScenario ==
    /\ TrackerInit(0)
    /\ \E with \in SUBSET (1..ScenarioResults), t \in PhraseScores,
          e1 \in EntityLists, e2 \in EntityLists :
          /\ Cardinality(with) = ScenarioPhrase
          /\ filt = [pc |-> "enrich", nlp |-> FALSE, name |-> <<"A", " ", "b">>,
                     combined |->
                        [i \in 1..ScenarioResults |->
                            IF i \in with
                            THEN [ner |-> e1, phrase |-> t.phrase, full |-> t.full, tok |-> t.tok]
                            ELSE [ner |-> e2, phrase |-> FALSE, full |-> NoMatchScores.full,
                                  tok |-> NoMatchScores.tok]],
                     filtered |-> <<>>, marked |-> <<>>]
    /\ merge = Unused /\ gsearch = Unused /\ gemini = Unused /\ run = Unused

NextScenario ==
    \/ EnrichCall
    \/ FilterCall

SpecScenario == InitScenario /\ [][NextScenario]_vars

\* C17: without the NER model every result gets an empty entities list and no
\* result is tagged by tier 1; of ScenarioResults (12) merged results of which
\* exactly ScenarioPhrase (3) hold the exact phrase of the name and the others
\* match no tier, the filter keeps exactly those 3, each tagged with the
\* matchMethod of the exact-phrase tier.
C17_WithoutNerPhraseTierDecides ==
    /\ filt.pc \in {"call", "done"} =>
          \A i \in DOMAIN filt.combined : filt.combined[i].entities = <<>>
    /\ filt.pc = "done" =>
          /\ Len(filt.filtered) = ScenarioPhrase
          /\ \A i \in DOMAIN filt.filtered :
                /\ filt.filtered[i].matchMethod = TierLabel.exact_phrase
                /\ filt.filtered[i].phrase
          /\ \A i \in DOMAIN filt.marked :
                ("matchMethod" \in DOMAIN filt.marked[i]) <=> filt.combined[i].phrase

\* the filter has run on 12 results whose text names the person as an entity the
\* NER model would have found, and kept the 3 that hold the phrase
C17_Witness ==
    /\ filt.pc = "done"
    /\ ~filt.nlp
    /\ Len(filt.combined) = ScenarioResults
    /\ \A i \in DOMAIN filt.combined : is_name_match(filt.name, filt.combined[i].ner)
    /\ Cardinality({i \in DOMAIN filt.combined : filt.combined[i].phrase}) = ScenarioPhrase
    /\ Len(filt.filtered) = ScenarioPhrase

----------------------------------------------------------------------------
(* osint_service.google_api_search *)

\* The credential pairs of the pool.
MaxPool == 2

\* `for attempt in range(2)`
SEARCH_ATTEMPTS == 2
RATE_LIMITED == 429
TIMEOUT_SLEEP == 1

\* What one requests.get can come to: a 2xx reply with a JSON object (its items
\* by their links), a 4xx/5xx reply, a timeout, a 2xx reply whose body is not a
\* JSON object, a connection failure.
SearchItems == {<<>>, <<"u1">>, <<"u1", "u2">>}
SearchOutcomes ==
    [kind : {"ok"}, code : {200}, items : SearchItems]
        \cup [kind : {"http"}, code : {RATE_LIMITED, 500}, items : {<<>>}]
        \cup [kind : {"timeout", "malformed", "connection"}, code : {0}, items : {<<>>}]

NoException == "none"

\* the exception the try block ends with
SearchException(outcome) ==
    CASE outcome.kind = "ok" -> NoException
      [] outcome.kind = "http" -> "HTTPError"
      [] outcome.kind = "timeout" -> "Timeout"
      [] outcome.kind = "malformed" -> "ValueError"
      [] outcome.kind = "connection" -> "ConnectionError"

\* a variant without the final `except Exception`
SearchExceptSpecific(exc) ==
    IF exc = "HTTPError" THEN "http"
    ELSE IF exc = "Timeout" THEN "timeout"
    ELSE "uncaught"

\* the except clause that handles an exception
SearchExcept(exc) ==
    IF exc = "HTTPError" THEN "http"
    ELSE IF exc = "Timeout" THEN "timeout"
    ELSE "generic"

\* bool(response): requests.Response.__bool__ is `ok`, false for 4xx and 5xx
ResponseTruthy(code) == code < 400

UnknownStatus == 0 - 1

\* `status = e.response.status_code if e.response else "?"`
HttpErrorStatus(code) == IF ResponseTruthy(code) THEN code ELSE UnknownStatus

RECURSIVE Pow2(_)
Pow2(n) == IF n = 0 THEN 1 ELSE 2 * Pow2(n - 1)

\* the result dicts built from the items
SearchResults(items, tag) == [i \in DOMAIN items |-> [source |-> tag, link |-> items[i]]]

\* a variant that allows one attempt more per pair
SearchOneMoreAttempt(idx, attempt) ==
    IF attempt + 1 <= SEARCH_ATTEMPTS THEN [idx |-> idx, attempt |-> attempt + 1]
    ELSE [idx |-> idx + 1, attempt |-> 0]

\* the loop position after the attempt's body ended normally or with `continue`
SearchNextAttempt(idx, attempt) ==
    IF attempt + 1 < SEARCH_ATTEMPTS THEN [idx |-> idx, attempt |-> attempt + 1]
    ELSE [idx |-> idx + 1, attempt |-> 0]

\* the loop position after `break`
SearchNextPair(idx) == [idx |-> idx + 1, attempt |-> 0]

\* one iteration of the inner loop: the request and what follows it
SearchRequest ==
    /\ gsearch.pc = "request"
    /\ gsearch.idx <= gsearch.pool
    /\ \E outcome \in SearchOutcomes :
          LET clause == SearchExcept(SearchException(outcome))
              entry == [idx |-> gsearch.idx, attempt |-> gsearch.attempt, outcome |-> outcome]
              logged == [gsearch EXCEPT !.log = Append(@, entry)]
              status == HttpErrorStatus(outcome.code)
              retry == SearchNextAttempt(gsearch.idx, gsearch.attempt)
              skip == SearchNextPair(gsearch.idx)
          IN  gsearch' =
                 IF SearchException(outcome) = NoException
                 THEN [logged EXCEPT !.pc = "done",
                                     !.ret = SearchResults(outcome.items, gsearch.tag)]
                 ELSE IF clause = "http"
                 THEN IF status = RATE_LIMITED
                      THEN [logged EXCEPT !.slept = Append(@, Pow2(gsearch.attempt)),
                                          !.idx = retry.idx, !.attempt = retry.attempt]
                      ELSE [logged EXCEPT !.idx = skip.idx, !.attempt = skip.attempt]
                 ELSE IF clause = "timeout"
                 THEN [logged EXCEPT !.slept = Append(@, TIMEOUT_SLEEP),
                                     !.idx = retry.idx, !.attempt = retry.attempt]
                 ELSE IF clause = "generic"
                 THEN [logged EXCEPT !.idx = skip.idx, !.attempt = skip.attempt]
                 ELSE [logged EXCEPT !.pc = "done", !.raised = TRUE]
    /\ UNCHANGED <<trackerVars, merge, filt, gemini, run>>

\* the pool is exhausted (or empty): `return []`
SearchExhausted ==
    /\ gsearch.pc = "request"
    /\ gsearch.idx > gsearch.pool
    /\ gsearch' = [gsearch EXCEPT !.pc = "done", !.ret = <<>>]
    /\ UNCHANGED <<trackerVars, merge, filt, gemini, run>>

InitSearch ==
    /\ TrackerInit(0)
    /\ gsearch \in [pc : {"request"}, pool : 0..MaxPool, tag : {"LinkedIn"}, idx : {1},
                    attempt : {0}, log : {<<>>}, slept : {<<>>}, ret : {<<>>},
                    raised : {FALSE}]
    /\ merge = Unused /\ filt = Unused /\ gemini = Unused /\ run = Unused

NextSearch == SearchRequest \/ SearchExhausted

SpecSearch == InitSearch /\ [][NextSearch]_vars

Successes(log) == {i \in DOMAIN log : log[i].outcome.kind = "ok"}

\* C8: google_api_search does not raise for a failing provider: when every
\* request fails (HTTP error, timeout, malformed body, any other exception) or
\* the pool is empty it returns the empty list, and otherwise it returns the
\* results of the first successful request.
C8_SearchDegradesToEmpty ==
    gsearch.pc = "done" =>
        /\ ~gsearch.raised
        /\ gsearch.pool = 0 => gsearch.log = <<>> /\ gsearch.ret = <<>>
        /\ Successes(gsearch.log) = {} => gsearch.ret = <<>>
        /\ Successes(gsearch.log) # {} =>
              LET first == CHOOSE i \in Successes(gsearch.log) :
                              \A j \in Successes(gsearch.log) : i <= j
              IN  gsearch.ret = SearchResults(gsearch.log[first].outcome.items, gsearch.tag)

LogKinds(log) == {log[i].outcome.kind : i \in DOMAIN log}

\* a call whose every request failed, by a timeout, an HTTP error and a
\* malformed body, on every pair of a full pool
C8_Witness ==
    /\ gsearch.pc = "done"
    /\ gsearch.pool = MaxPool
    /\ Successes(gsearch.log) = {}
    /\ {"timeout", "http", "malformed"} \subseteq LogKinds(gsearch.log)
    /\ {gsearch.log[i].idx : i \in DOMAIN gsearch.log} = 1..MaxPool
    /\ gsearch.ret = <<>>

\* C20: a request answered with HTTP 429 on attempt a of a pair, with an attempt
\* of that pair remaining, is followed by a sleep of 2^a seconds and by the next
\* attempt with the same pair; the next pair is not taken up without it.
C20_RateLimitBacksOffOnSameKey ==
    [][(/\ gsearch.pc = "request"
        /\ Len(gsearch'.log) = Len(gsearch.log) + 1
        /\ gsearch'.log[Len(gsearch'.log)].outcome.kind = "http"
        /\ gsearch'.log[Len(gsearch'.log)].outcome.code = RATE_LIMITED
        /\ gsearch.attempt + 1 < SEARCH_ATTEMPTS) =>
            /\ gsearch'.slept = Append(gsearch.slept, Pow2(gsearch.attempt))
            /\ gsearch'.idx = gsearch.idx
            /\ gsearch'.attempt = gsearch.attempt + 1]_vars

\* the request the step has just logged
Sent == gsearch'.log[Len(gsearch'.log)]
Sends == gsearch.pc = "request" /\ Len(gsearch'.log) = Len(gsearch.log) + 1

\* the log is in pool order, a pair once left is not used again, each pair gets at
\* most SEARCH_ATTEMPTS requests, numbered from 0, and nothing follows a success
InPoolOrder(log) ==
    /\ \A i, j \in DOMAIN log : i < j =>
          \/ log[i].idx < log[j].idx
          \/ log[i].idx = log[j].idx /\ log[i].attempt < log[j].attempt
    /\ \A i \in DOMAIN log : log[i].attempt \in 0..(SEARCH_ATTEMPTS - 1)
    /\ \A i \in DOMAIN log : log[i].outcome.kind = "ok" => i = Len(log)

\* C21: google_api_search uses the pairs in pool order with at most 2 requests
\* per pair.  A timeout on the first attempt is followed by the fixed sleep and
\* the second attempt with the same pair; an HTTP error other than 429, or any
\* other exception, is followed by the next pair with no sleep; no pair is used
\* after a later one, and a success ends the call.
C21_PairsInOrderTwoAttempts ==
    [][Sends =>
        /\ InPoolOrder(gsearch'.log)
        /\ Sent.idx = gsearch.idx /\ Sent.attempt = gsearch.attempt
        /\ (Sent.outcome.kind = "timeout" /\ Sent.attempt = 0) =>
              /\ gsearch'.slept = Append(gsearch.slept, TIMEOUT_SLEEP)
              /\ gsearch'.idx = gsearch.idx /\ gsearch'.attempt = 1
              /\ gsearch'.pc = "request"
        /\ (\/ Sent.outcome.kind = "http" /\ Sent.outcome.code # RATE_LIMITED
            \/ Sent.outcome.kind \in {"malformed", "connection"}) =>
              /\ gsearch'.slept = gsearch.slept
              /\ gsearch'.idx = gsearch.idx + 1 /\ gsearch'.attempt = 0
        /\ Sent.outcome.kind = "ok" => gsearch'.pc = "done"]_vars

\* a call whose first pair timed out, was retried and failed with HTTP 500, and
\* whose second pair succeeded at once
C21_Witness ==
    /\ gsearch.pc = "done"
    /\ Len(gsearch.log) = 3
    /\ gsearch.log[1].outcome.kind = "timeout"
    /\ gsearch.log[1].idx = 1 /\ gsearch.log[1].attempt = 0
    /\ gsearch.log[2].outcome.kind = "http" /\ gsearch.log[2].outcome.code = 500
    /\ gsearch.log[2].idx = 1 /\ gsearch.log[2].attempt = 1
    /\ gsearch.log[3].outcome.kind = "ok"
    /\ gsearch.log[3].idx = 2 /\ gsearch.log[3].attempt = 0
    /\ gsearch.slept = <<TIMEOUT_SLEEP>>

----------------------------------------------------------------------------
(* osint_service.fallback_ai_response, parse_ai_response,
   gemini_summarize_and_analyze *)

\* The credentials of the backend.
MaxKeys == 2

\* `for attempt in range(2)`
GEMINI_ATTEMPTS == 2
GEMINI_SLEEP == 1

fallback_ai_response ==
    [short_summary |-> "An error occurred during AI analysis. The search results are still available below.",
     detailed_summary |-> "The detailed AI analysis could not be generated. Please review the raw intelligence data for your own conclusions.",
     riskAnalysis |->
        [riskScore |-> 0,
         riskJustification |-> "AI analysis was unavailable - no risk assessment could be made.",
         sentimentScore |-> 0,
         sentimentJustification |-> "AI analysis was unavailable - no sentiment assessment could be made."],
     keyFindings |-> <<>>,
     associatedEntities |-> <<>>]

\* A reply text is a sequence of segments: an opening fence of three backquotes
\* and "json" (FenceJson), a fence of three backquotes (Fence), prose without
\* braces (Prose), a JSON array (Array), or a JSON object (its members as a
\* record; a member that is absent is not a field of the record, and numbers are
\* kept as their JSON text).
FenceJson == [seg |-> "fence-json"]
Fence == [seg |-> "fence"]
Prose == [seg |-> "prose"]
Array == [seg |-> "array"]
Object(members) == [seg |-> "object", members |-> members]
IsObject(segment) == segment.seg = "object"
JsonObjects ==
    { Object([short_summary |-> "s", riskScore |-> "7", keyFindings |-> <<"f">>]),
      Object([riskScore |-> "7", keyFindings |-> <<"f">>]),
      Object([short_summary |-> "", detailed_summary |-> "d"]),
      Object([short_summary |-> "s", riskScore |-> "high"]) }
ReplyBodies ==
    {<<o>> : o \in JsonObjects}
        \cup { <<>>, <<Prose>>, <<Array>>,
               <<Prose, Object([short_summary |-> "s", riskScore |-> "7", keyFindings |-> <<"f">>])>> }
ReplyTexts ==
    ReplyBodies \cup {<<FenceJson>> \o b \o <<Fence>> : b \in ReplyBodies}
        \cup {<<Fence>> \o b \o <<Fence>> : b \in ReplyBodies}
        \cup {<<FenceJson>> \o b : b \in ReplyBodies}

\* what model.generate_content / resp.text come to: an exception or a text
GeminiReplies == [kind : {"error"}, text : {<<>>}] \cup [kind : {"text"}, text : ReplyTexts]

\* `data.get(key, default)`
Get(data, key, default) == IF key \in DOMAIN data THEN data[key] ELSE default

\* int(): the integer of a JSON number, of the text of one, or of the default 0
IntConvertible(v) == v \in {"7", "0"}
ToInt(v) == IF v = "7" THEN 7 ELSE 0

\* json.loads succeeds and the value has .get: the text is one JSON object
ParsesAsObject(json_str) == Len(json_str) = 1 /\ IsObject(json_str[1])

parse_ai_response(json_str) ==
    IF /\ ParsesAsObject(json_str)
       /\ IntConvertible(Get(json_str[1].members, "riskScore", "0"))
       /\ IntConvertible(Get(json_str[1].members, "sentimentScore", "0"))
    THEN LET data == json_str[1].members
         IN  [short_summary |-> Get(data, "short_summary", ""),
              detailed_summary |-> Get(data, "detailed_summary", ""),
              riskAnalysis |->
                 [riskScore |-> ToInt(Get(data, "riskScore", "0")),
                  riskJustification |-> Get(data, "riskJustification", ""),
                  sentimentScore |-> ToInt(Get(data, "sentimentScore", "0")),
                  sentimentJustification |-> Get(data, "sentimentJustification", "")],
              keyFindings |-> Get(data, "keyFindings", <<>>),
              associatedEntities |-> Get(data, "associatedEntities", <<>>)]
    ELSE fallback_ai_response

\* the three `if txt.startswith / endswith` of the fence clean-up
StripFences(txt) ==
    LET a == IF txt # <<>> /\ Head(txt) = FenceJson THEN Tail(txt) ELSE txt
        b == IF a # <<>> /\ Head(a) = Fence THEN Tail(a) ELSE a
    IN  IF b # <<>> /\ b[Len(b)] = Fence THEN SubSeq(b, 1, Len(b) - 1) ELSE b

\* the segments with a "{" and a "}": the objects
BraceAt(txt) == {i \in DOMAIN txt : IsObject(txt[i])}

\* `json_start != -1 and json_end > json_start`
HasBraces(txt) == BraceAt(txt) # {}

\* `txt[json_start:json_end]`, from the first "{" to the last "}"
ExtractObject(txt) ==
    LET first == CHOOSE i \in BraceAt(txt) : \A j \in BraceAt(txt) : i <= j
        last == CHOOSE i \in BraceAt(txt) : \A j \in BraceAt(txt) : j <= i
    IN  SubSeq(txt, first, last)

\* a variant that tries a credential three times
GeminiThreeAttempts(key_idx, attempt) ==
    IF attempt + 1 < GEMINI_ATTEMPTS + 1 THEN [key_idx |-> key_idx, attempt |-> attempt + 1]
    ELSE [key_idx |-> key_idx + 1, attempt |-> 0]

\* the loop position after an attempt that did not return
GeminiNextAttempt(key_idx, attempt) ==
    IF attempt + 1 < GEMINI_ATTEMPTS THEN [key_idx |-> key_idx, attempt |-> attempt + 1]
    ELSE [key_idx |-> key_idx + 1, attempt |-> 0]

\* `if not gemini_keys or not all_snippets: return fallback_ai_response()`
GeminiEnter ==
    /\ gemini.pc = "enter"
    /\ gemini' =
          IF gemini.keys = 0 \/ gemini.snippets = 0
          THEN [gemini EXCEPT !.pc = "done", !.ret = fallback_ai_response]
          ELSE [gemini EXCEPT !.pc = "call"]
    /\ UNCHANGED <<trackerVars, merge, filt, gsearch, run>>

\* one iteration of the inner loop: the call and the handling of its reply
GeminiCall ==
    /\ gemini.pc = "call"
    /\ gemini.key_idx <= gemini.keys
    /\ \E reply \in GeminiReplies :
          LET entry == [key_idx |-> gemini.key_idx, attempt |-> gemini.attempt, reply |-> reply]
              called == [gemini EXCEPT !.calls = Append(@, entry)]
              next == GeminiNextAttempt(gemini.key_idx, gemini.attempt)
              txt == StripFences(reply.text)
              parsed == parse_ai_response(txt)
          IN  gemini' =
                 IF reply.kind = "error"
                 THEN [called EXCEPT !.slept = Append(@, GEMINI_SLEEP),
                                     !.key_idx = next.key_idx, !.attempt = next.attempt]
                 ELSE IF parsed.short_summary # ""
                 THEN [called EXCEPT !.pc = "done", !.ret = parsed]
                 ELSE IF HasBraces(txt)
                 THEN [called EXCEPT !.pc = "done",
                                     !.ret = parse_ai_response(ExtractObject(txt))]
                 ELSE [called EXCEPT !.key_idx = next.key_idx, !.attempt = next.attempt]
    /\ UNCHANGED <<trackerVars, merge, filt, gsearch, run>>

\* every credential is used up: `return fallback_ai_response()`
GeminiExhausted ==
    /\ gemini.pc = "call"
    /\ gemini.key_idx > gemini.keys
    /\ gemini' = [gemini EXCEPT !.pc = "done", !.ret = fallback_ai_response]
    /\ UNCHANGED <<trackerVars, merge, filt, gsearch, run>>

NoAnalysis == [short_summary |-> "not returned"]

InitGemini ==
    /\ TrackerInit(0)
    /\ gemini \in [pc : {"enter"}, keys : 0..MaxKeys, snippets : 0..1, key_idx : {1},
                   attempt : {0}, calls : {<<>>}, slept : {<<>>}, ret : {NoAnalysis}]
    /\ merge = Unused /\ filt = Unused /\ gsearch = Unused /\ run = Unused

NextGemini == GeminiEnter \/ GeminiCall \/ GeminiExhausted

SpecGemini == InitGemini /\ [][NextGemini]_vars

CallsWith(calls, k) == {i \in DOMAIN calls : calls[i].key_idx = k}

\* C9: when every call to the backend fails, gemini_summarize_and_analyze
\* returns the fixed stub (risk 0, sentiment 0, no findings, no entities); it
\* never calls the backend more than twice with one credential, and uses the
\* credentials in pool order.
C9_AllCallsFailGivesStub ==
    /\ \A k \in 1..MaxKeys : Cardinality(CallsWith(gemini.calls, k)) <= 2
    /\ \A i, j \in DOMAIN gemini.calls :
          /\ gemini.calls[i].key_idx \in 1..gemini.keys
          /\ i < j => gemini.calls[i].key_idx <= gemini.calls[j].key_idx
    /\ (gemini.pc = "done" /\ \A i \in DOMAIN gemini.calls : gemini.calls[i].reply.kind = "error")
          => /\ gemini.ret = fallback_ai_response
             /\ gemini.ret.riskAnalysis.riskScore = 0
             /\ gemini.ret.riskAnalysis.sentimentScore = 0
             /\ gemini.ret.keyFindings = <<>>
             /\ gemini.ret.associatedEntities = <<>>

\* a call with a full pool whose every attempt failed
C9_Witness ==
    /\ gemini.pc = "done"
    /\ gemini.keys = MaxKeys
    /\ Len(gemini.calls) = 2 * MaxKeys
    /\ \A i \in DOMAIN gemini.calls : gemini.calls[i].reply.kind = "error"
    /\ gemini.ret = fallback_ai_response

\* C10: a reply whose parsed object has no short_summary is not returned, the
\* loop goes on with the next attempt: what the function returns is an analysis
\* with a short_summary that is not empty, or the stub once every attempt of
\* every credential has been made.
C10_ReturnsSummaryOrStubAfterAllAttempts ==
    gemini.pc = "done" =>
        \/ gemini.ret # fallback_ai_response /\ gemini.ret.short_summary # ""
        \/ /\ gemini.ret = fallback_ai_response
           /\ gemini.keys = 0 \/ gemini.snippets = 0
                 \/ Len(gemini.calls) = GEMINI_ATTEMPTS * gemini.keys

----------------------------------------------------------------------------
(* osint_service.extract_profile_info, aggregate_entities,
   run_osint_with_progress: the report *)

\* The results the eight searches of one run return, over all of them.
MaxHits == 2

\* `persons.most_common(10)`
MOST_COMMON == 10

\* `source_tags` of the source analysis, and the order of the lists in the call
\* of merge_and_dedupe
SOURCE_TAGS ==
    <<"LinkedIn", "Case/News", "Reddit", "Wikipedia", "Business", "Academic", "Social", "General">>
MERGE_ORDER ==
    <<"Wikipedia", "LinkedIn", "Case/News", "General", "Reddit", "Business", "Academic", "Social">>

\* extract_event_from_result finds no date
NoDate == 0 - 1

\* A result of a search in a run: its source tag, link and title, the date
\* extract_event_from_result finds in it (dates as day numbers, in the order of
\* their ISO text), and what the filter sees in its text. The results carry no
\* page metadata and link to no social platform.
RunTags == {"LinkedIn", "Wikipedia"}
RunResults ==
    [source : RunTags, link : MergeLinks, title : {"t"}, date : {NoDate, 1, 2},
     ner : {<<>>}, phrase : BOOLEAN, full : {Low}, tok : {<<low, low>>}]

\* the profile of results without page metadata and social links: the initial one
extract_profile_info(results) ==
    [profileImages |-> <<>>, socialProfiles |-> <<>>, knownTitles |-> <<>>,
     knownOrganizations |-> <<>>]

\* the mentions aggregate_entities counts for the labels of one bucket
RECURSIVE EntityMentions(_, _, _)
EntityMentions(ents, labels, target_lower) ==
    IF ents = <<>> THEN <<>>
    ELSE LET text == Strip(Head(ents).text)
             skip == \/ Len(text) < 2
                     \/ IsSubstr(Lower(text), target_lower)
                     \/ IsSubstr(target_lower, Lower(text))
                     \/ Head(ents).label \notin labels
         IN  (IF skip THEN <<>> ELSE <<text>>)
                 \o EntityMentions(Tail(ents), labels, target_lower)

RECURSIVE AllEntities(_)
AllEntities(results) ==
    IF results = <<>> THEN <<>>
    ELSE EntitiesOf(Head(results)) \o AllEntities(Tail(results))

\* the keys of a Counter, in insertion order
RECURSIVE FirstSeen(_, _)
FirstSeen(texts, seen) ==
    IF texts = <<>> THEN <<>>
    ELSE IF Head(texts) \in seen THEN FirstSeen(Tail(texts), seen)
    ELSE <<Head(texts)>> \o FirstSeen(Tail(texts), seen \cup {Head(texts)})

MentionCount(texts, text) == Cardinality({i \in DOMAIN texts : texts[i] = text})

\* a variant that inserts before the entries with the same mentions
RECURSIVE InsertBeforeEqualMentions(_, _)
InsertBeforeEqualMentions(sorted, entry) ==
    IF sorted = <<>> THEN <<entry>>
    ELSE IF Head(sorted).mentions > entry.mentions
         THEN <<Head(sorted)>> \o InsertBeforeEqualMentions(Tail(sorted), entry)
         ELSE <<entry>> \o sorted

\* insertion into a list sorted by mentions descending, after the equal ones
RECURSIVE InsertByMentions(_, _)
InsertByMentions(sorted, entry) ==
    IF sorted = <<>> THEN <<entry>>
    ELSE IF Head(sorted).mentions >= entry.mentions
         THEN <<Head(sorted)>> \o InsertByMentions(Tail(sorted), entry)
         ELSE <<entry>> \o sorted

RECURSIVE SortByMentions(_, _)
SortByMentions(entries, sorted) ==
    IF entries = <<>> THEN sorted
    ELSE SortByMentions(Tail(entries), InsertByMentions(sorted, Head(entries)))

\* Counter.most_common(n) as a list of {"name", "mentions"}
MostCommon(texts, n) ==
    LET keys == FirstSeen(texts, {})
        entries == [i \in DOMAIN keys |->
                       [name |-> keys[i], mentions |-> MentionCount(texts, keys[i])]]
    IN  Take(SortByMentions(entries, <<>>), n)

aggregate_entities(results, target_name) ==
    LET target_lower == Lower(target_name)
        ents == AllEntities(results)
    IN  [relatedPersons |-> MostCommon(EntityMentions(ents, {"PERSON"}, target_lower), MOST_COMMON),
         relatedOrganizations |-> MostCommon(EntityMentions(ents, {"ORG"}, target_lower), MOST_COMMON),
         relatedLocations |-> MostCommon(EntityMentions(ents, {"GPE", "LOC"}, target_lower), MOST_COMMON)]

\* the events of the results that have a date, in the order of the results
RECURSIVE TimelineEvents(_)
TimelineEvents(filtered) ==
    IF filtered = <<>> THEN <<>>
    ELSE LET r == Head(filtered)
         IN  (IF r.date = NoDate THEN <<>>
              ELSE <<[date |-> r.date, title |-> r.title, source |-> r.source, link |-> r.link]>>)
                 \o TimelineEvents(Tail(filtered))

\* a variant that inserts before the events of the same date
RECURSIVE InsertBeforeEqualDates(_, _)
InsertBeforeEqualDates(sorted, evt) ==
    IF sorted = <<>> THEN <<evt>>
    ELSE IF Head(sorted).date > evt.date
         THEN <<Head(sorted)>> \o InsertBeforeEqualDates(Tail(sorted), evt)
         ELSE <<evt>> \o sorted

\* insertion into a list sorted by date descending, after the equal ones
RECURSIVE InsertByDate(_, _)
InsertByDate(sorted, evt) ==
    IF sorted = <<>> THEN <<evt>>
    ELSE IF Head(sorted).date >= evt.date
         THEN <<Head(sorted)>> \o InsertByDate(Tail(sorted), evt)
         ELSE <<evt>> \o sorted

\* `events.sort(key=lambda x: x["date"], reverse=True)`: stable
RECURSIVE SortByDate(_, _)
SortByDate(events, sorted) ==
    IF events = <<>> THEN sorted
    ELSE SortByDate(Tail(events), InsertByDate(sorted, Head(events)))

\* the loop over seen_events
RECURSIVE UniqueEvents(_, _)
UniqueEvents(events, seen_events) ==
    IF events = <<>> THEN <<>>
    ELSE LET key == <<Head(events).date, Head(events).title>>
         IN  IF key \in seen_events THEN UniqueEvents(Tail(events), seen_events)
             ELSE <<Head(events)>> \o UniqueEvents(Tail(events), seen_events \cup {key})

\* lines 691-712: the timeline of the filtered results
BuildTimeline(filtered) == UniqueEvents(SortByDate(TimelineEvents(filtered), <<>>), {})

SourceCount(filtered, s) == Cardinality({i \in DOMAIN filtered : filtered[i].source = s})

SourceAnalysis(filtered) ==
    [i \in DOMAIN SOURCE_TAGS |->
        [name |-> SOURCE_TAGS[i], count |-> SourceCount(filtered, SOURCE_TAGS[i])]]

RawData(filtered) ==
    [i \in DOMAIN filtered |->
        [title |-> filtered[i].title, link |-> filtered[i].link,
         source |-> filtered[i].source,
         matchMethod |-> Get(filtered[i], "matchMethod", "")]]

NoEntityAnalysis ==
    [relatedPersons |-> <<>>, relatedOrganizations |-> <<>>, relatedLocations |-> <<>>]

\* the report returned when the merge is empty
ZeroResultReport(name, city, ts) ==
    [name |-> name,
     location |-> city,
     short_summary |-> "No results were found for this search query.",
     detailed_summary |-> "The search across all sources returned zero results.",
     riskAnalysis |->
        [riskScore |-> 0, riskJustification |-> "No data available to assess risk.",
         sentimentScore |-> 0,
         sentimentJustification |-> "No data available to assess sentiment."],
     keyFindings |-> <<>>,
     associatedEntities |-> <<>>,
     sourceAnalysis |-> <<>>,
     timelineEvents |-> <<>>,
     raw_data |-> <<>>,
     profileInfo |-> extract_profile_info(<<>>),
     entityAnalysis |-> NoEntityAnalysis,
     searchMeta |->
        [totalResultsScanned |-> 0, totalResultsFiltered |-> 0, searchTimestamp |-> ts]]

\* the report returned when the filter keeps nothing
ZeroMatchReport(name, city, combined, ts) ==
    [name |-> name,
     location |-> city,
     short_summary |-> "No data found matching this person.",
     detailed_summary |-> "The search returned results, but none could be confidently linked to the target person.",
     riskAnalysis |->
        [riskScore |-> 0, riskJustification |-> "No relevant data found to assess.",
         sentimentScore |-> 0, sentimentJustification |-> "No relevant data found to assess."],
     keyFindings |-> <<"No results could be confidently attributed to the target individual.">>,
     associatedEntities |-> <<>>,
     sourceAnalysis |-> <<>>,
     timelineEvents |-> <<>>,
     raw_data |-> <<>>,
     profileInfo |-> extract_profile_info(<<>>),
     entityAnalysis |-> NoEntityAnalysis,
     searchMeta |->
        [totalResultsScanned |-> Len(combined), totalResultsFiltered |-> 0,
         searchTimestamp |-> ts]]

\* `final`
FinalReport(name, city, combined, filtered, ai_result, ts) ==
    [name |-> name,
     location |-> city,
     short_summary |-> ai_result.short_summary,
     detailed_summary |-> ai_result.detailed_summary,
     riskAnalysis |-> ai_result.riskAnalysis,
     keyFindings |-> ai_result.keyFindings,
     associatedEntities |-> ai_result.associatedEntities,
     sourceAnalysis |-> SourceAnalysis(filtered),
     timelineEvents |-> BuildTimeline(filtered),
     raw_data |-> RawData(filtered),
     profileInfo |-> extract_profile_info(filtered),
     entityAnalysis |-> aggregate_entities(filtered, name),
     searchMeta |->
        [totalResultsScanned |-> Len(combined), totalResultsFiltered |-> Len(filtered),
         searchTimestamp |-> ts, sourcesQueried |-> Len(SOURCE_TAGS)]]

NoReport == [name |-> <<>>]

\* a variant that raises when the merge is empty or the filter keeps nothing
RunRaisingOnNothing(name, city, found, nlp, ai, ts) ==
    LET sname == sanitize_input(name)
        scity == sanitize_input(city)
        combined == merge_and_dedupe([i \in DOMAIN MERGE_ORDER |-> found[MERGE_ORDER[i]]])
        enriched == enrich_with_nlp(combined, nlp)
        filtered == filter_results(enriched, sname)
    IN  IF sname = <<>> \/ combined = <<>> \/ filtered = <<>>
        THEN [raised |-> TRUE, report |-> NoReport]
        ELSE [raised |-> FALSE,
              report |-> FinalReport(sname, scity, enriched, filtered, ai, ts)]

\* a variant that raises when the analysis is the stub
RunRaisingOnStub(name, city, found, nlp, ai, ts) ==
    LET sname == sanitize_input(name)
        scity == sanitize_input(city)
        combined == merge_and_dedupe([i \in DOMAIN MERGE_ORDER |-> found[MERGE_ORDER[i]]])
        enriched == enrich_with_nlp(combined, nlp)
        filtered == filter_results(enriched, sname)
    IN  IF sname = <<>> THEN [raised |-> TRUE, report |-> NoReport]
        ELSE IF combined = <<>>
        THEN [raised |-> FALSE, report |-> ZeroResultReport(sname, scity, ts)]
        ELSE IF filtered = <<>>
        THEN [raised |-> FALSE, report |-> ZeroMatchReport(sname, scity, enriched, ts)]
        ELSE IF ai = fallback_ai_response THEN [raised |-> TRUE, report |-> NoReport]
        ELSE [raised |-> FALSE,
              report |-> FinalReport(sname, scity, enriched, filtered, ai, ts)]

\* run_osint_with_progress without its progress updates: `found` is what the
\* eight searches return by tag, `nlp` whether the NER model is loaded, `ai`
\* what gemini_summarize_and_analyze returns, `ts` the time of the return.
run_osint_with_progress(name, city, found, nlp, ai, ts) ==
    LET sname == sanitize_input(name)
        scity == sanitize_input(city)
        combined == merge_and_dedupe([i \in DOMAIN MERGE_ORDER |-> found[MERGE_ORDER[i]]])
        enriched == enrich_with_nlp(combined, nlp)
        filtered == filter_results(enriched, sname)
    IN  IF sname = <<>> THEN [raised |-> TRUE, report |-> NoReport]
        ELSE IF combined = <<>>
        THEN [raised |-> FALSE, report |-> ZeroResultReport(sname, scity, ts)]
        ELSE IF filtered = <<>>
        THEN [raised |-> FALSE, report |-> ZeroMatchReport(sname, scity, enriched, ts)]
        ELSE [raised |-> FALSE,
              report |-> FinalReport(sname, scity, enriched, filtered, ai, ts)]

\* what the searches of a run found, by tag
FoundBy(hits) ==
    [tag \in Range(SOURCE_TAGS) |-> SelectSeq(hits, LAMBDA r : r.source = tag)]

RunNames == {<<"@">>, <<"a">>}
AiResults ==
    { fallback_ai_response,
      parse_ai_response(<<Object([short_summary |-> "s", riskScore |-> "7", keyFindings |-> <<"f">>])>>) }

\* run_search of main.py:142-164 in one step: the call of
\* run_osint_with_progress and the write of its outcome to the record
RunCall ==
    /\ run.pc = "call"
    /\ LET ret == run_osint_with_progress(run.name, run.city, run.found, run.nlp, run.ai, "ts")
       IN  run' = [run EXCEPT !.pc = "done", !.raised = ret.raised, !.report = ret.report,
                              !.record = IF ret.raised
                                         THEN ErrorRecord(@, NAME_REQUIRED, 1)
                                         ELSE CompletedRecord(@, ret.report, 1)]
    /\ UNCHANGED <<trackerVars, merge, filt, gsearch, gemini>>

InitRun ==
    /\ TrackerInit(0)
    /\ \E name \in RunNames, ai \in AiResults, hits \in SeqsUpTo(RunResults, MaxHits) :
          run = [pc |-> "call", name |-> name, city |-> <<"b">>, found |-> FoundBy(hits),
                 nlp |-> FALSE, ai |-> ai, raised |-> FALSE, report |-> NoReport,
                 record |-> NewRecord(0)]
    /\ merge = Unused /\ filt = Unused /\ gsearch = Unused /\ gemini = Unused

NextRun == RunCall

SpecRun == InitRun /\ [][NextRun]_vars

ReportFields ==
    {"name", "location", "short_summary", "detailed_summary", "riskAnalysis",
     "keyFindings", "associatedEntities", "sourceAnalysis", "timelineEvents",
     "raw_data", "profileInfo", "entityAnalysis", "searchMeta"}

SearchMetaFields ==
    {"totalResultsScanned", "totalResultsFiltered", "searchTimestamp", "sourcesQueried"}

\* C5: whatever the outcome (no merged result, no filtered result, full
\* success), the report has the same top-level fields and its searchMeta has the
\* fields totalResultsScanned, totalResultsFiltered, searchTimestamp and
\* sourcesQueried.
C5_ReportShapeIsUniform ==
    (run.pc = "done" /\ ~run.raised) =>
        /\ DOMAIN run.report = ReportFields
        /\ DOMAIN run.report.searchMeta = SearchMetaFields

\* what the run of the model merged and kept
RunCombined == merge_and_dedupe([i \in DOMAIN MERGE_ORDER |-> run.found[MERGE_ORDER[i]]])
RunFiltered == filter_results(enrich_with_nlp(RunCombined, run.nlp), sanitize_input(run.name))

NoResultSummaries ==
    {"No results were found for this search query.", "No data found matching this person."}

\* C13: a run whose merge is empty (as when all eight searches return nothing) or
\* whose filter keeps nothing ends with its record completed, never error, and
\* with a report whose short_summary says nothing was found, with no timeline
\* event, no raw_data and searchMeta.totalResultsFiltered = 0.
C13_NothingFoundIsCompleted ==
    (/\ run.pc = "done"
     /\ sanitize_input(run.name) # <<>>
     /\ RunCombined = <<>> \/ RunFiltered = <<>>) =>
        /\ ~run.raised
        /\ run.record.status = "completed"
        /\ run.record.error = <<>>
        /\ run.record.result = <<run.report>>
        /\ run.report.short_summary \in NoResultSummaries
        /\ run.report.timelineEvents = <<>>
        /\ run.report.raw_data = <<>>
        /\ run.report.searchMeta.totalResultsFiltered = 0

\* a run whose searches found two results of which the filter kept none
C13_Witness ==
    /\ run.pc = "done"
    /\ Len(RunCombined) = 2
    /\ RunFiltered = <<>>
    /\ run.record.status = "completed"
    /\ run.report.searchMeta.totalResultsScanned = 2
    /\ run.report.searchMeta.totalResultsFiltered = 0

\* the sources whose search contributed nothing to the run
EmptySources == {tag \in Range(SOURCE_TAGS) : run.found[tag] = <<>>}

\* C16: a run in which some of the eight searches came back empty (as after their
\* retries are exhausted) or the analysis is the stub of the AI adapter still
\* returns a report and its record ends completed, not error: the report counts
\* and lists the results of the other sources, and carries the stub's analysis
\* when the analysis failed.
C16_DegradationIsNotFailure ==
    (/\ run.pc = "done"
     /\ sanitize_input(run.name) # <<>>
     /\ EmptySources # {} \/ run.ai = fallback_ai_response) =>
        /\ ~run.raised
        /\ run.record.status = "completed"
        /\ run.record.error = <<>>
        /\ run.record.result = <<run.report>>
        /\ run.report.searchMeta.totalResultsScanned = Len(RunCombined)
        /\ run.report.searchMeta.totalResultsFiltered = Len(RunFiltered)
        /\ run.report.raw_data = RawData(RunFiltered)
        /\ (run.ai = fallback_ai_response /\ RunFiltered # <<>>) =>
              /\ run.report.short_summary = fallback_ai_response.short_summary
              /\ run.report.riskAnalysis = fallback_ai_response.riskAnalysis
              /\ run.report.keyFindings = fallback_ai_response.keyFindings

\* LinkedIn's search came back empty and the analysis is the stub, and the report
\* is built from what Wikipedia's search found
C16_Witness ==
    /\ run.pc = "done"
    /\ run.found["LinkedIn"] = <<>>
    /\ run.found["Wikipedia"] # <<>>
    /\ run.ai = fallback_ai_response
    /\ run.record.status = "completed"
    /\ Len(run.report.raw_data) >= 1
    /\ \A i \in DOMAIN run.report.raw_data : run.report.raw_data[i].source = "Wikipedia"
    /\ run.report.short_summary = fallback_ai_response.short_summary

RECURSIVE SumCounts(_)
SumCounts(analysis) ==
    IF analysis = <<>> THEN 0 ELSE Head(analysis).count + SumCounts(Tail(analysis))

\* C28: in a full-success report raw_data has one entry per filtered result, with
\* pairwise distinct links; searchMeta.totalResultsFiltered is the length of
\* raw_data and the sum of the counts of sourceAnalysis over the eight source
\* tags; every timeline event's link is the link of a raw_data entry; and
\* 1 <= totalResultsFiltered <= totalResultsScanned.
C28_ReportCountsAgree ==
    (run.pc = "done" /\ ~run.raised /\ RunFiltered # <<>>) =>
        LET raw == run.report.raw_data
            meta == run.report.searchMeta
        IN
        /\ Len(raw) = Len(RunFiltered)
        /\ \A i \in DOMAIN raw : raw[i].link = RunFiltered[i].link
        /\ \A i, j \in DOMAIN raw : i # j => raw[i].link # raw[j].link
        /\ meta.totalResultsFiltered = Len(raw)
        /\ [i \in DOMAIN run.report.sourceAnalysis |-> run.report.sourceAnalysis[i].name]
              = SOURCE_TAGS
        /\ Len(SOURCE_TAGS) = 8
        /\ meta.totalResultsFiltered = SumCounts(run.report.sourceAnalysis)
        /\ \A e \in DOMAIN run.report.timelineEvents :
              \E i \in DOMAIN raw : raw[i].link = run.report.timelineEvents[e].link
        /\ 1 <= meta.totalResultsFiltered
        /\ meta.totalResultsFiltered <= meta.totalResultsScanned

\* a full report on two results of two sources of which the filter kept one, which
\* has a date
C28_Witness ==
    /\ run.pc = "done"
    /\ ~run.raised
    /\ run.found["LinkedIn"] # <<>> /\ run.found["Wikipedia"] # <<>>
    /\ run.report.searchMeta.totalResultsScanned = 2
    /\ run.report.searchMeta.totalResultsFiltered = 1
    /\ Len(run.report.raw_data) = 1
    /\ Len(run.report.timelineEvents) = 1
    /\ run.report.timelineEvents[1].link = run.report.raw_data[1].link

----------------------------------------------------------------------------
(* run_osint_with_progress, phase 8: the timeline *)

\* The filtered results of one run.
MaxEvents == 3

\* Filtered results as the timeline reads them; their links are pairwise
\* different, as merge_and_dedupe leaves them.
TimelineLinks == {"u1", "u2", "u3", "u4"}
TimelineResults ==
    [source : {"General"}, link : TimelineLinks, title : {"t", "u"}, date : {NoDate, 1, 2}]

DistinctLinks(results) ==
    \A i, j \in DOMAIN results : i # j => results[i].link # results[j].link

TimelineBuild ==
    /\ run.pc = "timeline"
    /\ run' = [run EXCEPT !.pc = "timeline-built", !.events = BuildTimeline(run.filtered)]
    /\ UNCHANGED <<trackerVars, merge, filt, gsearch, gemini>>

InitTimeline ==
    /\ TrackerInit(0)
    /\ \E filtered \in SeqsUpTo(TimelineResults, MaxEvents) :
          /\ DistinctLinks(filtered)
          /\ run = [pc |-> "timeline", filtered |-> filtered, events |-> <<>>]
    /\ merge = Unused /\ filt = Unused /\ gsearch = Unused /\ gemini = Unused

NextTimeline == TimelineBuild

SpecTimeline == InitTimeline /\ [][NextTimeline]_vars

\* the place in the filtered list of the result an event was built from
FilteredIndex(filtered, evt) == CHOOSE i \in DOMAIN filtered : filtered[i].link = evt.link

\* C11: the timeline holds each (date, title) pair at most once, is sorted by
\* date descending, and events of the same date are in the order their results
\* have in the filtered list; every event is built from a dated result, and every
\* (date, title) of a dated result has its event.
C11_TimelineSortedUniqueStable ==
    run.pc = "timeline-built" =>
        LET events == run.events
            filtered == run.filtered
            dated == {i \in DOMAIN filtered : filtered[i].date # NoDate}
        IN  /\ \A i, j \in DOMAIN events :
                  i < j => <<events[i].date, events[i].title>> # <<events[j].date, events[j].title>>
            /\ \A i, j \in DOMAIN events : i < j => events[i].date >= events[j].date
            /\ \A i, j \in DOMAIN events :
                  (i < j /\ events[i].date = events[j].date)
                      => FilteredIndex(filtered, events[i]) < FilteredIndex(filtered, events[j])
            /\ \A i \in DOMAIN events :
                  \E k \in dated :
                      events[i] = [date |-> filtered[k].date, title |-> filtered[k].title,
                                   source |-> filtered[k].source, link |-> filtered[k].link]
            /\ \A k \in dated :
                  \E i \in DOMAIN events :
                      events[i].date = filtered[k].date /\ events[i].title = filtered[k].title

\* a timeline built from a result of an early date, then two results of one
\* later date with different titles: both later ones come first, in their order;
\* and a timeline that lost an event with the (date, title) of an earlier one
C11_Witness ==
    /\ run.pc = "timeline-built"
    /\ Len(run.filtered) = 3
    /\ \/ /\ run.filtered[1].date = 1 /\ run.filtered[2].date = 2 /\ run.filtered[3].date = 2
          /\ run.filtered[2].title # run.filtered[3].title
          /\ Len(run.events) = 3
          /\ run.events[1].link = run.filtered[2].link
          /\ run.events[2].link = run.filtered[3].link
          /\ run.events[3].link = run.filtered[1].link
       \/ /\ run.filtered[1].date = 2 /\ run.filtered[2].date = 1 /\ run.filtered[3].date = 2
          /\ run.filtered[1].title = run.filtered[3].title
          /\ Len(run.events) = 2
          /\ run.events[1].link = run.filtered[1].link

----------------------------------------------------------------------------
(* osint_service.extract_event_from_result *)

\* the keys read from pagemap.metatags[0], in the order of the code, and from each
\* pagemap.newsarticle entry
META_KEYS ==
    <<"article:published_time", "datePublished", "date", "og:updated_time",
      "article:modified_time", "pubdate", "lastmod", "sailthru.date">>
ARTICLE_KEYS == <<"datepublished", "datecreated", "datemodified">>

\* at most this many keys of metatags[0] hold a value
MaxMeta == 2
\* at most this many newsarticle entries, and webpage entries
MaxArticles == 1

\* A field's text: absent (or empty), text that dateutil cannot parse, or text that
\* parses to a date.
Absent == [present |-> FALSE, ok |-> FALSE, date |-> NoDate]
Bad == [present |-> TRUE, ok |-> FALSE, date |-> NoDate]
DateText(d) == [present |-> TRUE, ok |-> TRUE, date |-> d]

\* parse_date(val, fuzzy=True): the date, or an exception
parse_date(val) == [raised |-> ~val.ok, date |-> val.date]

\* the first value of the sequence that is truthy (`if val:`), if any
RECURSIVE FirstPresent(_)
FirstPresent(vals) ==
    IF vals = <<>> THEN Absent
    ELSE IF Head(vals).present THEN Head(vals)
    ELSE FirstPresent(Tail(vals))

RECURSIVE Flatten(_)
Flatten(seqs) == IF seqs = <<>> THEN <<>> ELSE Head(seqs) \o Flatten(Tail(seqs))

\* lines 436-451: the value the metatags loop stops at
MetaValue(res) ==
    IF res.metatags = <<>> THEN Absent
    ELSE FirstPresent([k \in DOMAIN META_KEYS |-> res.metatags[1][k]])

\* lines 454-459
ArticleValue(res) == FirstPresent(Flatten(res.newsarticle))

\* lines 462-465
WebpageValue(res) == FirstPresent(res.webpage)

\* lines 468-477: the first match of the three patterns in the snippet
SnippetValue(res) == res.snippet

\* the values the four strategies stop at, in the order they are tried
StrategyValues(res) == <<MetaValue(res), ArticleValue(res), WebpageValue(res), SnippetValue(res)>>

\* which value the function returns the parse of: the first one found
ReturnedValue(vals) == FirstPresent(vals)

\* lines 429-480: `return parse_date(val)` at the first value found; an exception
\* of that parse ends the try block and None is returned
extract_event_from_result(res) ==
    LET val == ReturnedValue(StrategyValues(res))
        parsed == parse_date(val)
    IN  IF ~val.present THEN [raised |-> FALSE, date |-> NoDate]
        ELSE IF parsed.raised THEN [raised |-> FALSE, date |-> NoDate]
        ELSE [raised |-> FALSE, date |-> parsed.date]

\* the inputs: dates are numbered by the place they stand at
MetaDicts ==
    UNION {{[k \in DOMAIN META_KEYS |->
                IF k \in bad THEN Bad ELSE IF k \in with THEN DateText(k) ELSE Absent] :
             bad \in SUBSET with} :
           with \in {w \in SUBSET DOMAIN META_KEYS : Cardinality(w) <= MaxMeta}}
Articles == [DOMAIN ARTICLE_KEYS -> {Absent, Bad, DateText(11)}]
WebpageDates == {Absent, Bad, DateText(21)}
SnippetMatches == {Absent, Bad, DateText(31)}

EventCall ==
    /\ run.pc = "event"
    /\ LET ret == extract_event_from_result(run.res)
       IN  run' = [run EXCEPT !.pc = "event-done", !.raised = ret.raised, !.date = ret.date]
    /\ UNCHANGED <<trackerVars, merge, filt, gsearch, gemini>>

InitEvent ==
    /\ TrackerInit(0)
    /\ \E metatags \in SeqsUpTo(MetaDicts, 1), newsarticle \in SeqsUpTo(Articles, MaxArticles),
          webpage \in SeqsUpTo(WebpageDates, MaxArticles), snippet \in SnippetMatches :
          run = [pc |-> "event",
                 res |-> [metatags |-> metatags, newsarticle |-> newsarticle,
                          webpage |-> webpage, snippet |-> snippet],
                 date |-> NoDate, raised |-> FALSE]
    /\ merge = Unused /\ filt = Unused /\ gsearch = Unused /\ gemini = Unused

NextEvent == EventCall

SpecEvent == InitEvent /\ [][NextEvent]_vars

\* the strategies that succeed on a result: a value is found and it parses
Succeeded(res) ==
    {s \in DOMAIN StrategyValues(res) :
        StrategyValues(res)[s].present /\ StrategyValues(res)[s].ok}

\* C22: extract_event_from_result never raises and returns the date of the first
\* strategy, in the order metatags, newsarticle, webpage, snippet, that succeeds;
\* a strategy that finds no value, or a value that does not parse, has not
\* succeeded and the later ones are still tried; no date is returned only when
\* none succeeds.
C22_FirstSuccessfulStrategyDecides ==
    run.pc = "event-done" =>
        /\ ~run.raised
        /\ Succeeded(run.res) = {} <=> run.date = NoDate
        /\ Succeeded(run.res) # {} =>
              LET first == CHOOSE s \in Succeeded(run.res) : \A t \in Succeeded(run.res) : s <= t
              IN  run.date = StrategyValues(run.res)[first].date

----------------------------------------------------------------------------
(* The statements of run_osint_with_progress, in the order of the code *)

Upd(i) == [op |-> "update", phase |-> i, work |-> ""]
Work(w) == [op |-> "work", phase |-> 0, work |-> w]

\* a variant that filters before it announces the filter phase
ProgramFilterUnannounced ==
    << Upd(1), Work("LinkedIn"),
       Upd(2), Work("Case/News"),
       Upd(3), Work("General"),
       Upd(4), Work("Reddit"),
       Upd(5), Work("Wikipedia"),
       Upd(6), Work("Business"),
       Upd(7), Work("Academic"),
       Upd(8), Work("Social"),
       Upd(9), Work("merge"),
       Upd(10), Work("enrich"), Work("filter"),
       Upd(11),
       Upd(12), Work("profile"),
       Upd(13), Work("entities"),
       Upd(14), Work("ai"),
       Upd(15), Work("timeline"), Work("sources"),
       Upd(16), Work("report") >>

\* lines 554-722: each update(pct, stage) call (by its index in PHASES) and the
\* work that follows it
PROGRAM ==
    << Upd(1), Work("LinkedIn"),
       Upd(2), Work("Case/News"),
       Upd(3), Work("General"),
       Upd(4), Work("Reddit"),
       Upd(5), Work("Wikipedia"),
       Upd(6), Work("Business"),
       Upd(7), Work("Academic"),
       Upd(8), Work("Social"),
       Upd(9), Work("merge"),
       Upd(10), Work("enrich"),
       Upd(11), Work("filter"),
       Upd(12), Work("profile"),
       Upd(13), Work("entities"),
       Upd(14), Work("ai"),
       Upd(15), Work("timeline"), Work("sources"),
       Upd(16), Work("report") >>

SEARCH_WORK ==
    {"LinkedIn", "Case/News", "General", "Reddit", "Wikipedia", "Business", "Academic", "Social"}

\* what a search adds to the results scanned: nothing, or one result
SearchYields == {0, 1}

\* one statement of the run.  A search adds what it found; after the merge an
\* empty list returns (line 617), after the filter an empty list returns (line 648),
\* and the last statement returns the full report.
PhaseStep ==
    /\ run.pc = "phases"
    /\ LET st == PROGRAM[run.at]
           ran == Append(run.log, [work |-> st.work, pct |-> run.pct, stage |-> run.stage])
       IN
       IF st.op = "update"
       THEN run' = [run EXCEPT !.at = @ + 1, !.pct = PHASES[st.phase].pct,
                               !.stage = PHASES[st.phase].stage]
       ELSE IF st.work \in SEARCH_WORK
       THEN \E n \in SearchYields :
               run' = [run EXCEPT !.at = @ + 1, !.log = ran, !.scanned = @ + n]
       ELSE IF st.work = "merge" /\ run.scanned = 0
       THEN run' = [run EXCEPT !.pc = "phases-done", !.log = ran, !.exit = "zero_merged"]
       ELSE IF st.work = "filter"
       THEN \E kept \in 0..run.scanned :
               run' = IF kept = 0
                      THEN [run EXCEPT !.pc = "phases-done", !.log = ran, !.kept = 0,
                                       !.exit = "zero_filtered"]
                      ELSE [run EXCEPT !.at = @ + 1, !.log = ran, !.kept = kept]
       ELSE IF run.at = Len(PROGRAM)
       THEN run' = [run EXCEPT !.pc = "phases-done", !.log = ran, !.exit = "full"]
       ELSE run' = [run EXCEPT !.at = @ + 1, !.log = ran]
    /\ UNCHANGED <<trackerVars, merge, filt, gsearch, gemini>>

InitPhases ==
    /\ TrackerInit(0)
    /\ run = [pc |-> "phases", at |-> 1, pct |-> NewRecord(0).percentage,
              stage |-> NewRecord(0).stage, log |-> <<>>, scanned |-> 0, kept |-> 0,
              exit |-> "none"]
    /\ merge = Unused /\ filt = Unused /\ gsearch = Unused /\ gemini = Unused

NextPhases == PhaseStep

SpecPhases == InitPhases /\ [][NextPhases]_vars

\* the order of the phases
PHASE_ORDER ==
    << "LinkedIn", "Case/News", "General", "Reddit", "Wikipedia", "Business", "Academic",
       "Social", "merge", "enrich", "filter", "profile", "entities", "ai", "timeline",
       "sources", "report" >>

\* C25: the phases of a run execute one after the other in the fixed order (the
\* eight searches in tag order, merge, enrichment, filter, profile extraction,
\* entity aggregation, AI synthesis, timeline, source counts, report assembly);
\* the percentage and stage have been advanced at the boundary before each
\* phase's work starts; an empty merge or an empty filter result ends the run
\* before any later phase.
C25_PhasesInOrderEachAnnounced ==
    /\ run.pc \in {"phases", "phases-done"} =>
          /\ Len(run.log) <= Len(PHASE_ORDER)
          /\ \A i \in DOMAIN run.log : run.log[i].work = PHASE_ORDER[i]
          /\ \A i \in DOMAIN run.log :
                run.log[i].pct > (IF i = 1 THEN 0 ELSE run.log[i - 1].pct)
    /\ run.pc = "phases-done" =>
          /\ run.exit = "zero_merged" => run.log[Len(run.log)].work = "merge"
          /\ run.exit = "zero_filtered" => run.log[Len(run.log)].work = "filter"
          /\ run.exit = "full" => Len(run.log) = Len(PHASE_ORDER)

\* C25 as amended: the same order and the same early exits, and the percentage
\* and stage have been advanced before the work of every phase but the source
\* counts, which run under the stage of the timeline phase.
C25_PhasesInOrderAnnouncedButSourceCounts ==
    /\ run.pc \in {"phases", "phases-done"} =>
          /\ Len(run.log) <= Len(PHASE_ORDER)
          /\ \A i \in DOMAIN run.log : run.log[i].work = PHASE_ORDER[i]
          /\ \A i \in DOMAIN run.log :
                IF run.log[i].work = "sources"
                THEN run.log[i].pct = run.log[i - 1].pct /\ run.log[i].stage = run.log[i - 1].stage
                ELSE run.log[i].pct > (IF i = 1 THEN 0 ELSE run.log[i - 1].pct)
    /\ run.pc = "phases-done" =>
          /\ run.exit = "zero_merged" => run.log[Len(run.log)].work = "merge"
          /\ run.exit = "zero_filtered" => run.log[Len(run.log)].work = "filter"
          /\ run.exit = "full" => Len(run.log) = Len(PHASE_ORDER)

\* a run that went through every phase and returned the full report
C25_Witness ==
    /\ run.pc = "phases-done"
    /\ run.exit = "full"
    /\ [i \in DOMAIN run.log |-> run.log[i].work] = PHASE_ORDER
    /\ run.kept >= 1
    /\ run.pct = PHASES[NumPhases].pct

----------------------------------------------------------------------------
(* osint_service.aggregate_entities on results that carry entities *)

\* the first result mentions up to MaxTexts different persons, once each
MaxTexts == 11
\* the second result holds up to MaxMentions entities
MaxMentions == 2

NUMERALS == <<"1", "2", "3", "4", "5", "6", "7", "8", "9", "10", "11", "12", "13", "14">>
OtherPerson(j) == Person(<<"p", NUMERALS[j]>>)

EntityTarget == <<"a", "b", " ", "b">>

\* entity texts of the second result: the last person of the first result again,
\* a part of the target name, a text that contains it, a text with blanks around
\* it, and a single character
SecondTexts ==
    { <<"p", NUMERALS[MaxTexts]>>, <<"A", "b">>, <<"a", "b", " ", "b", "a">>,
      <<" ", "B", "a", " ">>, <<"c">> }
SecondEntities ==
    [text : SecondTexts, label : {"PERSON", "ORG"}]
        \cup [text : {<<" ", "B", "a", " ">>}, label : {"GPE", "LOC", "DATE"}]

EntitiesCall ==
    /\ run.pc = "entities"
    /\ run' = [run EXCEPT !.pc = "entities-done",
                          !.analysis = aggregate_entities(run.results, run.name)]
    /\ UNCHANGED <<trackerVars, merge, filt, gsearch, gemini>>

InitEntities ==
    /\ TrackerInit(0)
    /\ \E k \in {0, 1, MaxTexts - 1, MaxTexts}, second \in SeqsUpTo(SecondEntities, MaxMentions) :
          run = [pc |-> "entities", name |-> EntityTarget,
                 results |-> << [entities |-> [j \in 1..k |-> OtherPerson(j)]],
                                [entities |-> second] >>,
                 analysis |-> NoEntityAnalysis]
    /\ merge = Unused /\ filt = Unused /\ gsearch = Unused /\ gemini = Unused

NextEntities == EntitiesCall

SpecEntities == InitEntities /\ [][NextEntities]_vars

\* the three buckets and their labels
BUCKETS ==
    [relatedPersons |-> {"PERSON"}, relatedOrganizations |-> {"ORG"},
     relatedLocations |-> {"GPE", "LOC"}]

\* the places, among the entities of all results, where a text is mentioned with a
\* label of the bucket
MentionsAt(ents, bucket, text) ==
    {i \in DOMAIN ents : Strip(ents[i].text) = text /\ ents[i].label \in BUCKETS[bucket]}

FirstMention(ents, bucket, text) ==
    CHOOSE i \in MentionsAt(ents, bucket, text) :
        \A j \in MentionsAt(ents, bucket, text) : i <= j

\* C26: each bucket of aggregate_entities (PERSON, ORG, GPE-or-LOC) holds at most
\* 10 entries, ordered by mentions descending with equal mentions in the order
\* the texts were first met; each entry's mentions is the number of mentions of
\* its text, with a label of the bucket, over all results; and no entry's
\* lowercased text is part of, or contains, the lowercased target name.
C26_TopTenByMentions ==
    run.pc = "entities-done" =>
        LET ents == AllEntities(run.results) IN
        \A b \in DOMAIN BUCKETS :
            LET list == run.analysis[b]
                first == [i \in DOMAIN list |-> FirstMention(ents, b, list[i].name)]
            IN
            /\ Len(list) <= 10
            /\ \A i \in DOMAIN list :
                  /\ list[i].mentions = Cardinality(MentionsAt(ents, b, list[i].name))
                  /\ list[i].mentions >= 1
                  /\ ~IsSubstr(Lower(list[i].name), Lower(run.name))
                  /\ ~IsSubstr(Lower(run.name), Lower(list[i].name))
            /\ \A i \in 1..(Len(list) - 1) :
                  \/ list[i].mentions > list[i + 1].mentions
                  \/ /\ list[i].mentions = list[i + 1].mentions
                     /\ first[i] < first[i + 1]

\* eleven persons are mentioned, the last of them twice: it comes first, nine of
\* the others follow in the order they were met, and one is left out
C26_Witness ==
    /\ run.pc = "entities-done"
    /\ Len(run.results[1].entities) = MaxTexts
    /\ Len(run.analysis.relatedPersons) = 10
    /\ run.analysis.relatedPersons[1] = [name |-> <<"p", NUMERALS[MaxTexts]>>, mentions |-> 2]
    /\ run.analysis.relatedPersons[2] = [name |-> <<"p", "1">>, mentions |-> 1]
    /\ run.analysis.relatedOrganizations = <<[name |-> <<"B", "a">>, mentions |-> 1]>>
----------------------------------------------------------------------------
(* Properties of the progress tracker *)

Terminal == {"completed", "error"}

\* C1: for any search id, the percentages returned by successive polls of that id
\* are non-decreasing: a poll that finds the record never returns less than the
\* previous poll of the same id returned.
C1_PollPercentageNonDecreasing ==
    [][(poller.pc = "got" /\ poller'.pc = "built" /\ poller.prev # NoPrev)
          => poller'.resp.percentage >= poller.prev]_vars

\* C2: a record's status changes only from running to completed or to error, and a
\* record that is completed or error is never written again.
C2_TerminalRecordsAreFrozen ==
    [][\A ref \in DOMAIN heap :
          /\ heap[ref].status \in Terminal => heap'[ref] = heap[ref]
          /\ heap'[ref].status # heap[ref].status
                => heap[ref].status = "running" /\ heap'[ref].status \in Terminal]_vars

\* C3: in every reachable state at most MAX_ACTIVE (5) records have status running,
\* whatever the interleaving of concurrent POST /osint requests.
C3_AtMostFiveRunning == ActiveCount <= MAX_ACTIVE

\* the three shapes of a getProgress response for a record that exists
RunningShape(r) == r.status = "running" /\ r.result = <<>> /\ r.error = <<>>
CompletedShape(r) == r.status = "completed" /\ r.result # <<>> /\ r.error = <<>>
ErrorShape(r) == r.status = "error" /\ r.error # <<>> /\ r.result = <<>>

\* C4: every getProgress response for an existing record has exactly one of the
\* three shapes running / completed with result / error with message, also when the
\* poll's reads interleave with the owning unit's terminal write.
C4_ResponseHasOneShape ==
    (poller.pc = "done" /\ poller.resp.code = 200)
        => (RunningShape(poller.resp) \/ CompletedShape(poller.resp) \/ ErrorShape(poller.resp))


\* C27: every record of the map has a result only when completed, an error only
\* when error, never both, a finish time exactly when completed or error, and a
\* percentage between 0 and 100 that is 100 when completed.
C27_RecordFieldsAgreeWithStatus ==
    \A sid \in Ids :
        LET r == Rec(sid) IN
        /\ r.result # <<>> => r.status = "completed"
        /\ r.error # <<>> => r.status = "error"
        /\ ~(r.result # <<>> /\ r.error # <<>>)
        /\ r.finished # <<>> <=> r.status \in Terminal
        /\ r.percentage \in 0..100
        /\ r.status = "completed" => r.percentage = 100

----------------------------------------------------------------------------
(* Properties of error handling in the tracker *)

\* C14: every admitted request gives its unit a name that is still non-empty after
\* sanitize_input, and no record ends in status error with the message of the name
\* check of run_osint_with_progress.
C14_NameCheckNeverFails ==
    /\ \A u \in DOMAIN units : sanitize_input(units[u].name) # <<>>
    /\ \A ref \in DOMAIN heap :
          ~(heap[ref].status = "error" /\ heap[ref].error = <<NAME_REQUIRED>>)

\* the percentage of the last update() a unit at position pc has made
LastWritten(pc) == IF pc = 0 THEN 0 ELSE PHASES[pc].pct

\* the step in which unit u leaves run_osint_with_progress by an exception
Raises(u) ==
    /\ u \in DOMAIN units
    /\ units[u].pc \in FailPoints
    /\ units'[u].pc = DonePc
    /\ \E ref \in DOMAIN heap : heap'[ref].status = "error" /\ heap'[ref] # heap[ref]

\* C15: when a unit's run raises, the record of its search gets status error, an
\* error message and a finish timestamp and keeps the percentage the run wrote
\* last; the record of every other unit is left as it was and no other unit's
\* position changes.
C15_FailureStaysInItsUnit ==
    [][\A u \in DOMAIN units : Raises(u) =>
          LET ref == progress_store[units[u].sid] IN
          /\ heap'[ref].status = "error"
          /\ heap'[ref].error # <<>>
          /\ heap'[ref].finished = <<now>>
          /\ heap'[ref].percentage = LastWritten(units[u].pc)
          /\ heap[ref].status = "running"
          /\ \A v \in DOMAIN units \ {u} :
                /\ units'[v] = units[v]
                /\ heap'[progress_store[units[v].sid]] = heap[progress_store[units[v].sid]]
          /\ \A other \in DOMAIN heap \ {ref} : heap'[other] = heap[other]]_vars

\* the ids the step takes out of progress_store
Deleted == {sid \in Ids : sid \notin DOMAIN progress_store'}

\* C18: the sweep takes out of the map only records that are completed or error
\* and whose finish time is more than CLEANUP_AFTER_SECONDS (600) before the
\* time of the deletion, so never a running record and never a terminal record
\* younger than that, and no step of the sweep changes a field of any record.
C18_SweepDeletesOnlyOldTerminal ==
    [][/\ \A sid \in Deleted :
             /\ Rec(sid).status \in Terminal
             /\ Rec(sid).finished # <<>>
             /\ now - Rec(sid).finished[1] > CLEANUP_AFTER_SECONDS
       /\ reaper' # reaper => heap' = heap]_vars

\* C19: an admission stores its record under an id that is not in the map, so no
\* id of the map is ever bound to another record, and no two units hold the same
\* id (and so write the same record).
C19_EveryAdmissionGetsAFreshId ==
    [][/\ \A sid \in Ids \cap DOMAIN progress_store' : progress_store'[sid] = progress_store[sid]
       /\ \A u, v \in DOMAIN units' : u # v => units'[u].sid # units'[v].sid]_vars

\* C23: whatever inserts by request handlers and writes by units fall between the
\* steps of the sweep, the sweep thread never ends with an exception.
C23_SweepNeverFails == reaper.pc # "dead"

----------------------------------------------------------------------------
(* Properties of a run's progress *)

====
